---- MODULE Spec2Model ----
(***************************************************************************)
(* A model of the provider abstraction and message-orchestration core of   *)
(* the EarnLayer SDK demo: the Ad Search Component (useAdSearch and        *)
(* SearchAdsUseCase), the Conversation Session Manager                     *)
(* (useConversationManager and InitializeConversationUseCase), the two     *)
(* provider adapters and the ChatApplicationService.                       *)
(*                                                                         *)
(* Strings the code inspects character by character (message content,      *)
(* conversation identifiers) are sequences of one-character strings.       *)
(* A null reference is the string "null", undefined is "undefined".        *)
(***************************************************************************)
EXTENDS Integers, Sequences, FiniteSets, TLC

\* ------------------------------------------------------------------ bounds
MaxSearches == 11      \* successful searchAds calls in one run
MaxInFlight == 2       \* searchAds calls awaiting the remote at one time
MaxInits == 4          \* session-creation requests issued in one run
MaxSends == 2          \* adapter sendMessage calls in one run
MaxTurns == 2          \* ChatApplicationService.sendMessage calls in one run
MaxProbes == 1         \* connectivity probes of one adapter in flight at one time
MaxOrTurns == 11       \* sendMessage calls of one long direct-completion conversation
MaxOrErrors == 1       \* failed requests in that conversation
MaxCreates == 3        \* ProviderFactory.create calls in one run
MaxShutdowns == 2      \* shutdownProvider and shutdownAll calls in one run
MaxInstances == 2      \* plugin objects built under one name
MaxStreams == 1        \* streamMessage generators alive at one time
MaxHealthSearches == 1 \* successful searchAds calls beside the health checks

\* ------------------------------------------------------- program constants
HistoryKeep == 9       \* prev.slice(-9) in useAdSearch.searchAds

\* ------------------------------------------------------------ identifiers
\* Identifiers are named by a key; IdText gives the characters of each.
IdText(k) ==
  CASE k = "uuid_lower" ->
         <<"d", "6", "4", "a", "4", "8", "9", "9", "-", "2", "0", "e", "4", "-", "4", "e", "c", "d", "-", "a", "5", "3", "e", "-", "0", "5", "7", "a", "c", "e", "e", "d", "5", "4", "c", "f">>
    [] k = "uuid_upper" ->
         <<"D", "6", "4", "A", "4", "8", "9", "9", "-", "2", "0", "E", "4", "-", "4", "E", "C", "D", "-", "A", "5", "3", "E", "-", "0", "5", "7", "A", "C", "E", "E", "D", "5", "4", "C", "F">>
    [] k = "uuid_long" ->
         <<"d", "6", "4", "a", "4", "8", "9", "9", "-", "2", "0", "e", "4", "-", "4", "e", "c", "d", "-", "a", "5", "3", "e", "-", "0", "5", "7", "a", "c", "e", "e", "d", "5", "4", "c", "f", "0">>
    [] k = "uuid_bad_char" ->
         <<"g", "6", "4", "a", "4", "8", "9", "9", "-", "2", "0", "e", "4", "-", "4", "e", "c", "d", "-", "a", "5", "3", "e", "-", "0", "5", "7", "a", "c", "e", "e", "d", "5", "4", "c", "f">>
    [] k = "uuid_no_dash" ->
         <<"d", "6", "4", "a", "4", "8", "9", "9", "0", "2", "0", "e", "4", "0", "4", "e", "c", "d", "0", "a", "5", "3", "e", "0", "0", "5", "7", "a", "c", "e", "e", "d", "5", "4", "c", "f">>
    [] k = "not_a_uuid" ->
         <<"n", "o", "t", "-", "a", "-", "u", "u", "i", "d">>
    [] k = "conv_local" ->
         <<"c", "o", "n", "v", "_", "1", "7", "_", "k", "3", "x">>
    [] k = "empty" ->
         <<>>
    [] OTHER -> <<>>

IdKeys == {"uuid_lower", "uuid_upper", "uuid_long", "uuid_bad_char",
           "uuid_no_dash", "not_a_uuid", "conv_local", "empty"}

HexChars == {"0", "1", "2", "3", "4", "5", "6", "7", "8", "9",
             "a", "b", "c", "d", "e", "f", "A", "B", "C", "D", "E", "F"}

\* /^[0-9a-f]{8}-[0-9a-f]{4}-[0-9a-f]{4}-[0-9a-f]{4}-[0-9a-f]{12}$/i.test(text)
UuidRegexTest(text) ==
  /\ Len(text) = 36
  /\ \A i \in 1..Len(text) :
       IF i \in {9, 14, 19, 24} THEN text[i] = "-" ELSE text[i] \in HexChars

\* ToolhouseProvider.isValidConversationId, on an identifier key
IsValidConversationId(k) == k \in IdKeys /\ UuidRegexTest(IdText(k))

\* JavaScript falsiness of a string | null | undefined value: `!value`
Falsy(k) == k \in {"null", "undefined"} \/ (k \in IdKeys /\ IdText(k) = <<>>)

\* ------------------------------------------------------------- Ad search
VARIABLES
  ads,               \* useAdSearch: useState<Ad[]>([])
  adIsLoading,       \* useAdSearch: isLoading
  adError,           \* useAdSearch: error (the message, <<>> for null)
  lastSearchResult,  \* useAdSearch: lastSearchResult
  searchHistory,     \* useAdSearch: searchHistory
  searchUseCaseRef,  \* useAdSearch: searchUseCaseRef.current # null
  adConfig,          \* the AdvertisingConfig the hook is rendered with
  adConfigRef,       \* useAdSearch: configRef.current
  adPending,         \* searchAds calls suspended at `await execute(...)`
  adClock,           \* the clock `new Date()` reads in SearchAdsUseCase.execute
  adLog,             \* every result of a successful search since clearHistory
  adLast             \* what the last searchAds step did (observer)

adVars == <<ads, adIsLoading, adError, lastSearchResult, searchHistory,
            searchUseCaseRef, adConfig, adConfigRef, adPending,
            adClock, adLog, adLast>>


\* The advertising configurations the hook can be rendered with.
AdConfigs == {"cfgA", "cfgB"}

\* The query lists and conversation ids given to searchAds.
QueryLists == {<< <<"a">>, <<"b", "c">> >>}
SearchConvIds == {"uuid1"}

\* The arrays a remote ad query can return in `results`.
RemoteAdArrays == {<<"ad1">>, <<"ad2", "ad1">>}

\* What the remote ad query can do: fetch rejects, a non-2xx status, a body
\* that is not JSON, or a JSON body with or without a `results` member.
AdResponses ==
  [kind : {"network_error", "http_error"}, hasResults : {FALSE}, results : {<<>>}]
    \cup [kind : {"ok"}, hasResults : {TRUE}, results : RemoteAdArrays]

NoResult == [ads |-> <<>>, query |-> <<>>, timestamp |-> 0]
NoLast == [outcome |-> "none", cause |-> "none", returned |-> <<>>,
           hadResults |-> FALSE]

\* queries.join(' ')
RECURSIVE JoinQueries(_)
JoinQueries(qs) ==
  IF Len(qs) = 0 THEN <<>>
  ELSE IF Len(qs) = 1 THEN qs[1]
  ELSE qs[1] \o <<" ">> \o JoinQueries(Tail(qs))

\* Array.prototype.slice(-n)
SliceLast(s, n) ==
  IF Len(s) <= n THEN s ELSE SubSeq(s, Len(s) - n + 1, Len(s))

\* SearchAdsUseCase.execute, the part after `await fetch`: the result it
\* returns or the AdSearchError it throws.
ExecuteOutcome(queries, conversationId, response, now) ==
  IF response.kind = "ok"
  THEN [kind |-> "ok",
        cause |-> "none",
        message |-> <<>>,
        result |-> [ads |-> IF response.hasResults THEN response.results ELSE <<>>,
                    query |-> JoinQueries(queries),
                    timestamp |-> now]]
  ELSE [kind |-> "AdSearchError", cause |-> response.kind,
        message |-> <<"Failed to search ads: ", response.kind>>, result |-> NoResult]

\* options?.conversationId || conversationId
SearchConversationId(optionId, hookId) ==
  IF Falsy(optionId) THEN hookId ELSE optionId

AdInit ==
  /\ ads = <<>>
  /\ adIsLoading = FALSE
  /\ adError = <<>>
  /\ lastSearchResult = NoResult
  /\ searchHistory = <<>>
  /\ searchUseCaseRef = FALSE
  /\ adConfig \in AdConfigs
  /\ adConfigRef = adConfig
  /\ adPending = <<>>
  /\ adClock = 0
  /\ adLog = <<>>
  /\ adLast = NoLast

\* A render with a new configuration object, and the effect that follows it.
AdConfigEffect(c) ==
  /\ adConfig' = c
  /\ IF adConfigRef = c
     THEN UNCHANGED <<adConfigRef, searchUseCaseRef>>
     ELSE /\ adConfigRef' = c
          /\ searchUseCaseRef' = TRUE
  /\ UNCHANGED <<ads, adIsLoading, adError, lastSearchResult, searchHistory,
                 adPending, adClock, adLog, adLast>>

\* searchAds up to its `await`: the guard, the two setters and the request.
SearchAdsCall(queries, optionId, hookId) ==
  /\ Len(adPending) < MaxInFlight
  /\ IF ~searchUseCaseRef
     THEN /\ adLast' = [NoLast EXCEPT !.outcome = "Error", !.cause = "not_initialized"]
          /\ UNCHANGED <<adIsLoading, adError, adPending>>
     ELSE /\ adIsLoading' = TRUE
          /\ adError' = <<>>
          /\ adPending' = Append(adPending,
               [queries |-> queries,
                conversationId |-> SearchConversationId(optionId, hookId)])
          /\ UNCHANGED adLast
  /\ UNCHANGED <<ads, lastSearchResult, searchHistory, searchUseCaseRef,
                 adConfig, adConfigRef, adClock, adLog>>

HistoryAppend_Keep10(prev, result) == Append(SliceLast(prev, 10), result)

\* setSearchHistory(prev => [...prev.slice(-9), result])
HistoryAppend(prev, result) == Append(SliceLast(prev, HistoryKeep), result)

SearchAdsResolved_Merge(result) ==
  /\ ads' = ads \o result.ads
  /\ lastSearchResult' = result
  /\ searchHistory' = HistoryAppend(searchHistory, result)
  /\ UNCHANGED adError

\* searchAds after a resolved execute: the three setters of the try block.
SearchAdsResolved(result) ==
  /\ ads' = result.ads
  /\ lastSearchResult' = result
  /\ searchHistory' = HistoryAppend(searchHistory, result)
  /\ UNCHANGED adError

SearchAdsRejected_ClearAds(err) ==
  /\ adError' = err.message
  /\ ads' = <<>>
  /\ UNCHANGED <<lastSearchResult, searchHistory>>

\* searchAds after a rejected execute: the catch block.
SearchAdsRejected(err) ==
  /\ adError' = err.message
  /\ UNCHANGED <<ads, lastSearchResult, searchHistory>>

\* The sequence s without its i-th element.
RemoveAt(s, i) == SubSeq(s, 1, i - 1) \o SubSeq(s, i + 1, Len(s))

\* searchAds from its `await` to its end, for one remote response.
SearchAdsSettle(i, response) ==
  LET p == adPending[i]
      out == ExecuteOutcome(p.queries, p.conversationId, response, adClock + 1) IN
  /\ adPending' = RemoveAt(adPending, i)
  /\ IF out.kind = "ok"
     THEN /\ adClock < MaxSearches
          /\ adClock' = adClock + 1
          /\ SearchAdsResolved(out.result)
          /\ adLog' = Append(adLog, out.result)
          /\ adLast' = [outcome |-> "ok", cause |-> "none",
                        returned |-> response.results,
                        hadResults |-> response.hasResults]
     ELSE /\ SearchAdsRejected(out)
          /\ UNCHANGED <<adLog, adClock>>
          /\ adLast' = [NoLast EXCEPT !.outcome = out.kind, !.cause = out.cause]
  /\ adIsLoading' = FALSE
  /\ UNCHANGED <<searchUseCaseRef, adConfig, adConfigRef>>

ClearAds ==
  /\ ads' = <<>>
  /\ lastSearchResult' = NoResult
  /\ adError' = <<>>
  /\ adLast' = NoLast
  /\ UNCHANGED <<adIsLoading, searchHistory, searchUseCaseRef, adConfig,
                 adConfigRef, adPending, adClock, adLog>>

ClearHistory ==
  /\ searchHistory' = <<>>
  /\ adLog' = <<>>
  /\ UNCHANGED <<ads, adIsLoading, adError, lastSearchResult, searchUseCaseRef,
                 adConfig, adConfigRef, adPending, adClock, adLast>>


\* ------------------------------------------------- Conversation session
VARIABLES
  conv,            \* useConversationManager: its React state and calls in flight
  convConfig,      \* the ConversationConfig the hook is rendered with
  initUseCaseRef,  \* useConversationManager: initUseCaseRef.current # null
  convMounted,     \* the hook's effects have run for the first render
  convLast,        \* the last operation on the session manager (observer)
  everAuto,        \* config.autoInitialize has been true in some render (observer)
  everReset        \* resetConversation has been called (observer)

convVars == <<conv, convConfig, initUseCaseRef, convMounted, convLast,
              everAuto, everReset>>

NoConvResult == [conversationId |-> "null", isHealthy |-> FALSE,
                 backendInitialized |-> FALSE, source |-> "none"]

\* The conversation_id member of a session-creation response body.
BackendIds == {"uuid_lower", "uuid_upper", "not_a_uuid", "empty", "undefined"}

\* What the session-creation call can do: fetch rejects, a non-2xx status, a
\* body that is not JSON, the JSON body null, or a JSON object.
SessionResponses ==
  [kind : {"network_error", "http_error", "invalid_json"}, bodyNull : {FALSE},
   conversation_id : {"undefined"}]
    \cup [kind : {"ok"}, bodyNull : {TRUE}, conversation_id : {"undefined"}]
    \cup [kind : {"ok"}, bodyNull : {FALSE}, conversation_id : BackendIds]

\* InitializeConversationUseCase.generateConversationId: conv_<time>_<random>
GenerateConversationId == "conv_local"

\* InitializeConversationUseCase.initializeWithBackend: resolves with the
\* parsed body, or throws.
InitializeWithBackendResolves(response) == response.kind = "ok"

\* InitializeConversationUseCase.execute, the part after the `await`: the
\* inner try reads backendResult.conversation_id, the inner catch generates a
\* local identifier and leaves backendResult null.
Execute(response) ==
  LET resolved == InitializeWithBackendResolves(response)
      readOk == resolved /\ ~response.bodyNull
  IN [conversationId |-> IF readOk THEN response.conversation_id
                         ELSE GenerateConversationId,
      isHealthy |-> TRUE,
      backendInitialized |-> resolved /\ ~response.bodyNull,
      source |-> IF readOk THEN "backend" ELSE "local"]

ConvInit ==
  /\ conv = [conversationId |-> "null", isLoading |-> FALSE, error |-> "null",
             isHealthy |-> FALSE, conversationResult |-> NoConvResult,
             pending |-> 0, requests |-> 0, autoCalls |-> 0, explicitCalls |-> 0]
  /\ convConfig \in [autoInitialize : BOOLEAN]
  /\ initUseCaseRef = FALSE
  /\ convMounted = FALSE
  /\ convLast = "none"
  /\ everAuto = convConfig.autoInitialize
  /\ everReset = FALSE

\* The program state of the hook, without the observers.
ConvState(c) == [conversationId |-> c.conversationId, isLoading |-> c.isLoading,
                 error |-> c.error, isHealthy |-> c.isHealthy,
                 conversationResult |-> c.conversationResult,
                 pending |-> c.pending]

\* initializeConversation up to its `await`: the two setters, and execute
\* up to the fetch of initializeWithBackend.
InitializeConversationCall(c, origin) ==
  [c EXCEPT !.isLoading = TRUE,
            !.error = "null",
            !.pending = @ + 1,
            !.requests = @ + 1,
            !.autoCalls = IF origin = "auto" THEN @ + 1 ELSE @,
            !.explicitCalls = IF origin = "auto" THEN @ ELSE @ + 1]

\* initializeConversation from its `await` to its end: the setters of the
\* try block and of finally.
InitializeConversationSettle(c, result) ==
  [c EXCEPT !.conversationId = result.conversationId,
            !.conversationResult = result,
            !.isHealthy = result.isHealthy,
            !.isLoading = FALSE,
            !.pending = @ - 1]

AutoInitializeCondition_NoFlag(c, cfg, ref) ==
  Falsy(c.conversationId) /\ ~c.isLoading /\ ref

\* The condition of the auto-initialize effect.
AutoInitializeCondition(c, cfg, ref) ==
  cfg.autoInitialize /\ Falsy(c.conversationId) /\ ~c.isLoading /\ ref

\* The auto-initialize effect, run after a render that changed its
\* dependencies.
AutoInitializeEffect(c, cfg, ref) ==
  IF AutoInitializeCondition(c, cfg, ref)
  THEN InitializeConversationCall(c, "auto")
  ELSE c

ResetConversation_KeepResult(c) ==
  [c EXCEPT !.conversationId = "null",
            !.error = "null",
            !.isHealthy = ~c.isHealthy]

\* resetConversation: its four setters.
ResetConversation(c) ==
  [c EXCEPT !.conversationId = "null",
            !.conversationResult = NoConvResult,
            !.error = "null",
            !.isHealthy = FALSE]

\* updateConversationHealth
UpdateConversationHealth(c, ref) ==
  [c EXCEPT !.isHealthy = ~(Falsy(c.conversationId) \/ ~ref)]

\* An operation may start a request only while the run is within its bound.
WithinInits(c, next) == next.requests > c.requests => c.requests < MaxInits

\* The first render's effects: the use case is created, then the
\* auto-initialize effect runs.
ConvMount ==
  /\ ~convMounted
  /\ convMounted' = TRUE
  /\ initUseCaseRef' = TRUE
  /\ conv' = AutoInitializeEffect(conv, convConfig, TRUE)
  /\ convLast' = "mount"
  /\ UNCHANGED <<convConfig, everAuto, everReset>>

\* A render with a new ConversationConfig object of the same baseUrl and
\* creatorId, and the two effects that follow it.
ConvConfigChange(cfg) ==
  /\ convMounted
  /\ convConfig' = cfg
  /\ everAuto' = (everAuto \/ cfg.autoInitialize)
  /\ conv' = AutoInitializeEffect(conv, cfg, initUseCaseRef)
  /\ WithinInits(conv, conv')
  /\ convLast' = "config"
  /\ UNCHANGED <<initUseCaseRef, convMounted, everReset>>

\* An explicit initializeConversation() call, up to its `await`.
InitializeConversation ==
  /\ convMounted
  /\ initUseCaseRef
  /\ conv' = InitializeConversationCall(conv, "explicit")
  /\ WithinInits(conv, conv')
  /\ convLast' = "initialize"
  /\ UNCHANGED <<convConfig, initUseCaseRef, convMounted, everAuto, everReset>>

\* One initializeConversation call in flight gets its response and runs to
\* its end; the render that follows runs the auto-initialize effect.
InitializeConversationDone(response) ==
  /\ conv.pending > 0
  /\ conv' = AutoInitializeEffect(
               InitializeConversationSettle(conv, Execute(response)),
               convConfig, initUseCaseRef)
  /\ WithinInits(conv, conv')
  /\ convLast' = "settle"
  /\ UNCHANGED <<convConfig, initUseCaseRef, convMounted, everAuto, everReset>>

\* resetConversation() and the render that follows it.
ResetConversationCall ==
  /\ convMounted
  /\ conv' = AutoInitializeEffect(ResetConversation(conv), convConfig,
                                  initUseCaseRef)
  /\ WithinInits(conv, conv')
  /\ convLast' = "reset"
  /\ everReset' = TRUE
  /\ UNCHANGED <<convConfig, initUseCaseRef, convMounted, everAuto>>

\* updateConversationHealth()
UpdateConversationHealthCall ==
  /\ convMounted
  /\ conv' = UpdateConversationHealth(conv, initUseCaseRef)
  /\ convLast' = "health"
  /\ UNCHANGED <<convConfig, initUseCaseRef, convMounted, everAuto, everReset>>

\* ------------------------------------------------------ provider adapters
VARIABLES
  toolhouse,    \* ToolhouseProvider: its private fields and metrics
  thCalls,      \* ToolhouseProvider.sendMessage calls suspended at an `await`
  thProbes,     \* testMCPConnection runs in flight, each named by its caller
  openrouter,   \* OpenRouterProvider: its private fields and metrics
  orCalls,      \* OpenRouterProvider.sendMessage calls suspended at `fetch`
  orProbes,     \* OpenRouterProvider.initialize calls suspended in testConnection
  provLast      \* how the last adapter operation ended (observer)

provVars == <<toolhouse, thCalls, thProbes, openrouter, orCalls, orProbes,
              provLast>>

WhitespaceChars == {" ", "\t", "\n"}

\* String.prototype.trim, in its two halves
RECURSIVE TrimStart(_)
TrimStart(s) ==
  IF s # <<>> /\ Head(s) \in WhitespaceChars THEN TrimStart(Tail(s)) ELSE s

RECURSIVE TrimEnd(_)
TrimEnd(s) ==
  IF s # <<>> /\ s[Len(s)] \in WhitespaceChars
  THEN TrimEnd(SubSeq(s, 1, Len(s) - 1))
  ELSE s

Trim(s) == TrimEnd(TrimStart(s))

\* The message contents given to the adapters: empty, whitespace-only,
\* plain and padded text.
BlankContents == {<<>>, <<" ">>, <<" ", "\t", "\n">>}
TextContents == {<<"h", "i">>, <<" ", "h", "i", " ">>}

\* id stands for AIMessage.id: <<"msg", n>> for the n-th message a caller
\* built, <<"assistant", n>> for the n-th one an adapter generated.
NoMessage == [id |-> <<"msg", 0>>, content |-> <<>>, role |-> "none",
              conversationId |-> "undefined"]

\* The AIMessage values given to sendMessage; conversationId stands for
\* metadata.conversationId, "undefined" when the metadata has none.
AIMessages ==
  [id : {<<"msg", 1>>}, content : BlankContents, role : {"user"},
   conversationId : {"uuid_lower"}]
    \cup [id : {<<"msg", 1>>}, content : {<<"h", "i">>}, role : {"user"},
          conversationId : {"uuid_lower", "uuid_upper", "uuid_long",
                            "not_a_uuid", "conv_local", "empty", "undefined"}]
    \cup [id : {<<"msg", 1>>}, content : {<<" ", "h", "i", " ">>},
          role : {"user", "tool"}, conversationId : {"uuid_lower"}]

\* The messages given to both adapters side by side.
CommonMessages ==
  [id : {<<"msg", 1>>}, content : BlankContents \cup {<<"h", "i">>},
   role : {"user"}, conversationId : {"uuid_lower"}]
    \cup {[id |-> <<"msg", 1>>, content |-> <<" ", "h", "i", " ">>,
           role |-> "tool", conversationId |-> "uuid_lower"],
          [id |-> <<"msg", 1>>, content |-> <<"h", "i">>, role |-> "user",
           conversationId |-> "not_a_uuid"]}

\* BaseAIProvider.validateMessage: "ok", or the message of the Error it throws
ValidateMessageNoTrim(message) ==
  IF message.content = <<>>
  THEN "Message content cannot be empty"
  ELSE IF message.role \notin {"user", "assistant", "system"}
       THEN "Message role must be user, assistant, or system"
       ELSE "ok"

ValidateMessage(message) ==
  IF message.content = <<>> \/ Len(Trim(message.content)) = 0
  THEN "Message content cannot be empty"
  ELSE IF message.role \notin {"user", "assistant", "system"}
       THEN "Message role must be user, assistant, or system"
       ELSE "ok"

\* `new URL(text)` succeeds on these strings and throws on the others.
UrlParses(text) == text \in {"http://localhost:8001", "https://openrouter.ai/api/v1"}

NoThConfig == [baseUrl |-> "undefined", agentUrl |-> "undefined"]

\* The configurations given to ToolhouseProvider.initialize.
ThConfigs == [baseUrl : {"", "localhost", "http://localhost:8001"},
              agentUrl : {"", "http://localhost:8001/agent"}]

\* ToolhouseProvider.validateConfig
ThValidateConfig(config) == config.baseUrl # "" /\ UrlParses(config.baseUrl)

\* The ads of an MCP search response.
McpAd1 == [title |-> "AI Toolkit", description |-> "Build assistants faster",
           url |-> "https://ads.example/ai-toolkit"]
McpAd2 == [title |-> "Cloud Hosting", description |-> "Deploy anywhere",
           url |-> ""]

\* What mcpClient.searchContentAds can do: reject, resolve with null, or
\* resolve with an object with or without `ads` and `content`.
McpResponses ==
  [kind : {"reject", "null"}, hasAds : {FALSE}, ads : {<<>>}, content : {""}]
    \cup [kind : {"object"}, hasAds : {FALSE}, ads : {<<>>}, content : {""}]
    \cup [kind : {"object"}, hasAds : {TRUE}, ads : {<<McpAd1, McpAd2>>},
          content : {"", "context"}]

NoMcpResponse == [kind |-> "none", hasAds |-> FALSE, ads |-> <<>>, content |-> ""]

\* What the agent endpoint can do: fetch rejects, a non-2xx status, a
\* response without a body, or a streamed text.
AgentResponses ==
  [kind : {"reject", "http_error", "no_body"}, text : {<<>>}]
    \cup [kind : {"ok"}, text : {<<>>, <<"agent reply">>}]

\* How the two requests of testMCPConnection can end.
ProbeResponses == {"conversation_failed", "search_failed", "ok"}

\* The numbered list without its link lines.
RECURSIVE AdLines_NoLink(_, _)
AdLines_NoLink(relevantAds, index) ==
  IF index > Len(relevantAds) THEN <<>>
  ELSE LET ad == relevantAds[index] IN
       <<ToString(index), ". ", ad.title, " - ", ad.description, "\n">>
         \o AdLines_NoLink(relevantAds, index + 1)

\* The numbered list of ads both generateAIResponse texts carry.
RECURSIVE AdLines(_, _)
AdLines(relevantAds, index) ==
  IF index > Len(relevantAds) THEN <<>>
  ELSE LET ad == relevantAds[index] IN
       <<ToString(index), ". ", ad.title, " - ", ad.description, "\n">>
         \o (IF ad.url # "" THEN <<"   Link: ", ad.url, "\n">> ELSE <<>>)
         \o AdLines(relevantAds, index + 1)

\* `mcpResponse.ads || []`
RelevantAds(mcpResponse) == IF mcpResponse.hasAds THEN mcpResponse.ads ELSE <<>>

\* generateAIResponse: the enhanced message sent to the agent endpoint
EnhancedMessage(message, mcpResponse) ==
  LET mcpContext == mcpResponse.content
      relevantAds == RelevantAds(mcpResponse)
  IN IF mcpContext # "" \/ Len(relevantAds) > 0
     THEN message.content
            \o <<"\n\nRelevant context and resources:\n">>
            \o (IF mcpContext # ""
                THEN <<"MCP Content: ", mcpContext, "\n\n">> ELSE <<>>)
            \o (IF Len(relevantAds) > 0
                THEN <<"Available resources:\n">> \o AdLines(relevantAds, 1)
                       \o <<"\n">>
                ELSE <<>>)
            \o <<"Please provide a helpful response incorporating this context and any relevant resources.">>
     ELSE message.content

\* generateAIResponse: the template response of its catch block
TemplateResponse(message, mcpResponse) ==
  LET mcpContext == mcpResponse.content
      relevantAds == RelevantAds(mcpResponse)
  IN <<"I understand you're asking about: \"">> \o message.content
       \o <<"\"\n\n">>
       \o (IF mcpContext # ""
           THEN <<"Based on relevant information: ", mcpContext, "\n\n">>
           ELSE <<>>)
       \o (IF Len(relevantAds) > 0
           THEN <<"Here are some relevant resources:\n">>
                  \o AdLines(relevantAds, 1)
           ELSE <<"I don't have specific resources for this topic, but I'm happy to help with general information.">>)

NoOutcome == [adapter |-> "none", op |-> "none", message |-> NoMessage,
              kind |-> "none", error |-> "", content |-> <<>>,
              mcpAds |-> <<>>, events |-> <<>>]

\* BaseAIProvider.updateMetrics, its two counters
UpdateMetrics(adapter, isError) ==
  [adapter EXCEPT !.requestCount = @ + 1,
                  !.errorCount = IF isError THEN @ + 1 ELSE @]

\* A suspended sendMessage: prompt is the text posted to the agent endpoint,
\* messages the messages array posted to the completion endpoint. A
\* streamMessage generator has also pc, the yield it is suspended at, the
\* events it has yielded and the words its chunk loop has yet to yield.
NoCall == [message |-> NoMessage, await |-> "none",
           mcpResponse |-> NoMcpResponse, prompt |-> <<>>, messages |-> <<>>,
           pc |-> "none", events |-> <<>>, words |-> <<>>]

\* The catch block of sendMessage: handleError counts the error and rethrows
\* the error it was given.
SendFailed(name, adapter, message, kind, error) ==
  [adapter |-> UpdateMetrics(adapter, TRUE), done |-> TRUE, call |-> NoCall,
   outcome |-> [adapter |-> name, op |-> "sendMessage", message |-> message,
                kind |-> kind, error |-> error, content |-> <<>>,
                mcpAds |-> <<>>, events |-> <<>>]]

\* The end of a successful sendMessage: updateMetrics and the response entity.
SendResolved(name, adapter, message, content, mcpAds) ==
  [adapter |-> UpdateMetrics(adapter, FALSE), done |-> TRUE, call |-> NoCall,
   outcome |-> [adapter |-> name, op |-> "sendMessage", message |-> message,
                kind |-> "response", error |-> "", content |-> content,
                mcpAds |-> mcpAds, events |-> <<>>]]

SendSuspended(adapter, call) ==
  [adapter |-> adapter, done |-> FALSE, call |-> call, outcome |-> NoOutcome]

ThInitialized(th) == th.toolhouseConfig # NoThConfig /\ th.mcpClient

\* searchMCPContent up to `await this.mcpClient.searchContentAds(...)`
SearchMCPContentStart(th, message) ==
  IF Falsy(message.conversationId)
  THEN SendFailed("toolhouse", th, message, "Error",
                  "Conversation ID is required for MCP integration")
  ELSE IF ~IsValidConversationId(message.conversationId)
       THEN SendFailed("toolhouse", th, message, "Error",
                       "Invalid conversation ID format")
       ELSE SendSuspended(th, [NoCall EXCEPT !.message = message,
                                             !.await = "search"])

\* ToolhouseProvider.sendMessage up to its first `await`
ThSendMessageStart(th, message) ==
  LET invalid == ValidateMessage(message) IN
  IF invalid # "ok"
  THEN SendFailed("toolhouse", th, message, "Error", invalid)
  ELSE IF ~ThInitialized(th)
       THEN SendFailed("toolhouse", th, message, "ProviderRequestError",
                       "Provider toolhouse request failed: Provider not initialized")
       ELSE SearchMCPContentStart(
              [th EXCEPT !.conversationHistory = Append(@, message)], message)

\* ToolhouseProvider.sendMessage from the answer of searchContentAds to the
\* fetch of callToolhouseAgent, or to its end when the agent is not called.
ThSearchResume(th, call, response) ==
  IF response.kind = "reject"
  THEN SendFailed("toolhouse", th, call.message, "Error", "MCP request failed")
  ELSE IF response.kind = "null"
       THEN SendFailed("toolhouse", th, call.message, "TypeError",
                       "Cannot read properties of null (reading 'ads')")
       ELSE IF th.toolhouseConfig.agentUrl \in {"", "undefined"}
            THEN SendResolved("toolhouse", th, call.message,
                              TemplateResponse(call.message, response),
                              RelevantAds(response))
            ELSE SendSuspended(th, [call EXCEPT
                                      !.await = "agent",
                                      !.mcpResponse = response,
                                      !.prompt = EnhancedMessage(call.message, response)])

\* ToolhouseProvider.sendMessage from the answer of the agent endpoint to
\* its end.
ThAgentResume(th, call, response) ==
  SendResolved("toolhouse", th, call.message,
               IF response.kind = "ok" THEN response.text
               ELSE TemplateResponse(call.message, call.mcpResponse),
               RelevantAds(call.mcpResponse))

\* ToolhouseProvider.shutdown
ThShutdownState(th) ==
  [th EXCEPT !.toolhouseConfig = NoThConfig, !.mcpClient = FALSE,
             !.conversationHistory = <<>>]

\* ----- streamMessage of the agent adapter, an async generator

\* The characters of the strings the model writes as one piece; a piece not
\* listed is one character.
Characters(piece) ==
  CASE piece = "agent reply" ->
         <<"a", "g", "e", "n", "t", " ", "r", "e", "p", "l", "y">>
    [] piece = "I understand you're asking about: \"" ->
         <<"I", " ", "u", "n", "d", "e", "r", "s", "t", "a", "n", "d",
           " ", "y", "o", "u", "'", "r", "e", " ", "a", "s", "k", "i",
           "n", "g", " ", "a", "b", "o", "u", "t", ":", " ", "\"">>
    [] piece = "\"\n\n" ->
         <<"\"", "\n", "\n">>
    [] piece = "Based on relevant information: " ->
         <<"B", "a", "s", "e", "d", " ", "o", "n", " ", "r", "e", "l",
           "e", "v", "a", "n", "t", " ", "i", "n", "f", "o", "r", "m",
           "a", "t", "i", "o", "n", ":", " ">>
    [] piece = "context" ->
         <<"c", "o", "n", "t", "e", "x", "t">>
    [] piece = "\n\n" ->
         <<"\n", "\n">>
    [] piece = "Here are some relevant resources:\n" ->
         <<"H", "e", "r", "e", " ", "a", "r", "e", " ", "s", "o", "m",
           "e", " ", "r", "e", "l", "e", "v", "a", "n", "t", " ", "r",
           "e", "s", "o", "u", "r", "c", "e", "s", ":", "\n">>
    [] piece = ". " ->
         <<".", " ">>
    [] piece = " - " ->
         <<" ", "-", " ">>
    [] piece = "   Link: " ->
         <<" ", " ", " ", "L", "i", "n", "k", ":", " ">>
    [] piece = "AI Toolkit" ->
         <<"A", "I", " ", "T", "o", "o", "l", "k", "i", "t">>
    [] piece = "Build assistants faster" ->
         <<"B", "u", "i", "l", "d", " ", "a", "s", "s", "i", "s", "t",
           "a", "n", "t", "s", " ", "f", "a", "s", "t", "e", "r">>
    [] piece = "https://ads.example/ai-toolkit" ->
         <<"h", "t", "t", "p", "s", ":", "/", "/", "a", "d", "s", ".",
           "e", "x", "a", "m", "p", "l", "e", "/", "a", "i", "-", "t",
           "o", "o", "l", "k", "i", "t">>
    [] piece = "Cloud Hosting" ->
         <<"C", "l", "o", "u", "d", " ", "H", "o", "s", "t", "i", "n",
           "g">>
    [] piece = "Deploy anywhere" ->
         <<"D", "e", "p", "l", "o", "y", " ", "a", "n", "y", "w", "h",
           "e", "r", "e">>
    [] piece = "I don't have specific resources for this topic, but I'm happy to help with general information." ->
         <<"I", " ", "d", "o", "n", "'", "t", " ", "h", "a", "v", "e",
           " ", "s", "p", "e", "c", "i", "f", "i", "c", " ", "r", "e",
           "s", "o", "u", "r", "c", "e", "s", " ", "f", "o", "r", " ",
           "t", "h", "i", "s", " ", "t", "o", "p", "i", "c", ",", " ",
           "b", "u", "t", " ", "I", "'", "m", " ", "h", "a", "p", "p",
           "y", " ", "t", "o", " ", "h", "e", "l", "p", " ", "w", "i",
           "t", "h", " ", "g", "e", "n", "e", "r", "a", "l", " ", "i",
           "n", "f", "o", "r", "m", "a", "t", "i", "o", "n", ".">>
    [] OTHER -> <<piece>>

\* A text as the string the code builds: its pieces concatenated
RECURSIVE Flatten(_)
Flatten(content) ==
  IF content = <<>> THEN <<>>
  ELSE Characters(Head(content)) \o Flatten(Tail(content))

\* String.prototype.split(' '): the segments between the spaces of a string,
\* the k-th one lying between the (k-1)-th and the k-th space
SplitOnSpace(chars) ==
  LET spaces == {i \in 1..Len(chars) : chars[i] = " "}
      Boundary(k) ==
        IF k = 0 THEN 0
        ELSE IF k > Cardinality(spaces) THEN Len(chars) + 1
             ELSE CHOOSE i \in spaces :
                    Cardinality({j \in spaces : j < i}) = k - 1
  IN [k \in 1..(Cardinality(spaces) + 1) |->
        SubSeq(chars, Boundary(k - 1) + 1, Boundary(k) - 1)]

\* An AIStreamEvent: step and adsFound stand for its metadata, data for the
\* text of a chunk, error for the message of an error event.
StreamEvent(type, step, adsFound, data, error) ==
  [type |-> type, step |-> step, adsFound |-> adsFound, data |-> data,
   error |-> error]

\* The generator suspended at the `yield` of one more event; pc names the
\* yield it is suspended at.
StreamYield(call, pc, event) ==
  [call EXCEPT !.await = "next", !.pc = pc, !.events = Append(@, event)]

StreamYieldError(call, error) ==
  StreamYield(call, "error", StreamEvent("error", "", 0, <<>>, error))

\* A mis-translation of the chunk loop: the generator ends after its last
\* chunk without yielding the end event.
StreamChunkLoop_NoEnd(call, words) ==
  IF words = <<>>
  THEN [call EXCEPT !.await = "next", !.pc = "end"]
  ELSE StreamYield([call EXCEPT !.words = Tail(words)], "chunk",
                   StreamEvent("chunk", "", 0, Head(words) \o <<" ">>, ""))

\* The chunk loop of streamMessage at the head of its `for`: one more chunk,
\* or the end event after the last word.
StreamChunkLoop(call, words) ==
  IF words = <<>>
  THEN StreamYield(call, "end", StreamEvent("end", "", 0, <<>>, ""))
  ELSE StreamYield([call EXCEPT !.words = Tail(words)], "chunk",
                   StreamEvent("chunk", "", 0, Head(words) \o <<" ">>, ""))

\* searchMCPContent up to its `await`: "ok", or the message of the Error it
\* throws
StreamSearchStart(th, message) ==
  IF ~th.mcpClient THEN "MCP client not initialized"
  ELSE IF Falsy(message.conversationId)
       THEN "Conversation ID is required for MCP integration"
       ELSE IF ~IsValidConversationId(message.conversationId)
            THEN "Invalid conversation ID format"
            ELSE "ok"

\* The generator resumed by the consumer's next() from the yield it is
\* suspended at (or from its start), up to its next yield or `await`.
StreamResume(th, call) ==
  CASE call.pc = "begin" ->
         LET invalid == ValidateMessage(call.message) IN
         IF invalid # "ok" THEN StreamYieldError(call, invalid)
         ELSE IF ~ThInitialized(th)
              THEN StreamYieldError(call,
                     "Provider toolhouse request failed: Provider not initialized")
              ELSE StreamYield(call, "start",
                               StreamEvent("start", "", 0, <<>>, ""))
    [] call.pc = "start" ->
         StreamYield(call, "searching_mcp",
                     StreamEvent("metadata", "searching_mcp", 0, <<>>, ""))
    [] call.pc = "searching_mcp" ->
         LET failed == StreamSearchStart(th, call.message) IN
         IF failed # "ok" THEN StreamYieldError(call, failed)
         ELSE [call EXCEPT !.await = "stream_search"]
    [] call.pc = "mcp_complete" ->
         StreamYield(call, "generating_response",
                     StreamEvent("metadata", "generating_response", 0, <<>>, ""))
    [] call.pc = "generating_response" ->
         IF th.toolhouseConfig.agentUrl \in {"", "undefined"}
         THEN StreamChunkLoop(call,
                SplitOnSpace(Flatten(TemplateResponse(call.message,
                                                      call.mcpResponse))))
         ELSE [call EXCEPT !.await = "stream_agent"]
    [] call.pc = "chunk" -> [call EXCEPT !.await = "timer"]
    [] OTHER -> [call EXCEPT !.await = "done", !.pc = "done"]

\* The generator resumed by the answer of searchContentAds
StreamSearchResume(call, response) ==
  IF response.kind = "reject" THEN StreamYieldError(call, "MCP request failed")
  ELSE IF response.kind = "null"
       THEN StreamYieldError(call,
              "Cannot read properties of null (reading 'ads')")
       ELSE StreamYield([call EXCEPT !.mcpResponse = response], "mcp_complete",
                        StreamEvent("metadata", "mcp_complete",
                                    Len(RelevantAds(response)), <<>>, ""))

\* The generator resumed by the answer of the agent endpoint
StreamAgentResume(call, response) ==
  StreamChunkLoop(call,
    SplitOnSpace(Flatten(IF response.kind = "ok" THEN response.text
                         ELSE TemplateResponse(call.message, call.mcpResponse))))

\* How a streamMessage generator ended: kind is "done" when it ran to its
\* end, "returned" when the consumer stopped pulling.
StreamOutcome(call, kind) ==
  [NoOutcome EXCEPT !.adapter = "toolhouse", !.op = "streamMessage",
                    !.message = call.message, !.kind = kind,
                    !.events = call.events]

\* The direct-completion adapter.
HistoryLimit == 20     \* conversationHistory.slice(-20)

NoOrConfig == [apiKey |-> "undefined", model |-> "undefined",
               baseUrl |-> "undefined", hasTemperature |-> FALSE,
               temperature |-> 0, hasMaxTokens |-> FALSE, maxTokens |-> 0]

\* temperature is in tenths
GoodOrConfig == [apiKey |-> "sk-or-key", model |-> "openai/gpt-4o-mini",
                 baseUrl |-> "https://openrouter.ai/api/v1",
                 hasTemperature |-> TRUE, temperature |-> 7,
                 hasMaxTokens |-> TRUE, maxTokens |-> 1000]

\* The configurations given to OpenRouterProvider.initialize.
OrConfigs == {GoodOrConfig,
              [GoodOrConfig EXCEPT !.apiKey = ""],
              [GoodOrConfig EXCEPT !.temperature = 25],
              [GoodOrConfig EXCEPT !.maxTokens = 0]}

\* OpenRouterProvider.validateConfig
OrValidateConfig(config) ==
  /\ config.apiKey # ""
  /\ config.model # ""
  /\ config.baseUrl # ""
  /\ config.hasTemperature => (config.temperature >= 0 /\ config.temperature <= 20)
  /\ config.hasMaxTokens => config.maxTokens >= 1

\* What the completion endpoint can do: fetch rejects, a non-2xx status, a
\* body that is not JSON, a body without choices, or a completion text.
CompletionResponses ==
  [kind : {"reject", "http_error", "invalid_json", "no_choices"}, text : {<<>>}]
    \cup [kind : {"ok"}, text : {<<>>, <<"completion">>}]

\* The content of the system message of buildMessagesArray
SystemPrompt == <<"You are a helpful assistant with access to contextual information and resources. When relevant information or resources are provided, you can naturally reference them in your responses to help the user.">>

\* The {role, content} object buildMessagesArray pushes for one message
ApiMessage(msg) == [role |-> msg.role, content |-> msg.content]

\* conversationHistory.filter(msg => msg.id !== currentMessage.id), each
\* message mapped to its {role, content} object
RECURSIVE HistoryWithout(_, _)
HistoryWithout(history, id) ==
  IF history = <<>>
  THEN <<>>
  ELSE (IF Head(history).id # id THEN <<ApiMessage(Head(history))>> ELSE <<>>)
         \o HistoryWithout(Tail(history), id)

\* OpenRouterProvider.buildMessagesArray, conversationHistory being the
\* history at the time of the call
BuildMessagesArray(conversationHistory, currentMessage) ==
  (IF Len(conversationHistory) = 0
   THEN <<[role |-> "system", content |-> SystemPrompt]>>
   ELSE <<>>)
    \o HistoryWithout(conversationHistory, currentMessage.id)
    \o <<ApiMessage(currentMessage)>>

\* OpenRouterProvider.sendMessage up to the fetch of callOpenRouterAPI
OrSendMessageStart(or, message) ==
  LET invalid == ValidateMessage(message) IN
  IF invalid # "ok"
  THEN SendFailed("openrouter", or, message, "Error", invalid)
  ELSE IF or.openRouterConfig = NoOrConfig
       THEN SendFailed("openrouter", or, message, "ProviderRequestError",
                       "Provider openrouter request failed: Provider not initialized")
       ELSE LET pushed == Append(or.conversationHistory, message)
                kept == IF Len(pushed) > HistoryLimit
                        THEN SliceLast(pushed, HistoryLimit)
                        ELSE pushed
            IN SendSuspended(
                 [or EXCEPT !.conversationHistory = kept],
                 [NoCall EXCEPT !.message = message, !.await = "completion",
                                !.messages = BuildMessagesArray(kept, message)])

\* OpenRouterProvider.sendMessage from the answer of the completion endpoint
\* to its end.
OrCompletionResume(or, call, response) ==
  CASE response.kind = "reject" ->
         SendFailed("openrouter", or, call.message, "TypeError", "Failed to fetch")
    [] response.kind = "http_error" ->
         SendFailed("openrouter", or, call.message, "ProviderRequestError",
                    "Provider openrouter request failed: HTTP 500: Internal Server Error")
    [] response.kind = "invalid_json" ->
         SendFailed("openrouter", or, call.message, "SyntaxError",
                    "Unexpected token in JSON")
    [] response.kind = "no_choices" \/ (response.kind = "ok" /\ response.text = <<>>) ->
         SendFailed("openrouter", or, call.message, "ProviderRequestError",
                    "Provider openrouter request failed: Invalid response format from OpenRouter API")
    [] OTHER ->
         LET counted == UpdateMetrics(or, FALSE) IN
         IF or.openRouterConfig = NoOrConfig
         THEN SendFailed("openrouter", counted, call.message, "TypeError",
                         "Cannot read properties of undefined (reading 'model')")
         ELSE [SendResolved("openrouter", or, call.message, response.text, <<>>)
                 EXCEPT !.adapter.conversationHistory =
                   Append(@, [id |-> <<"assistant", counted.requestCount>>,
                              content |-> response.text, role |-> "assistant",
                              conversationId |-> "undefined"])]

\* A mis-translation of OpenRouterProvider.shutdown: the conversation history
\* survives it.
OrShutdownState_KeepHistory(or) == [or EXCEPT !.openRouterConfig = NoOrConfig]

\* OpenRouterProvider.shutdown
OrShutdownState(or) ==
  [or EXCEPT !.openRouterConfig = NoOrConfig, !.conversationHistory = <<>>]

OpOutcome(name, op, kind, error) ==
  [NoOutcome EXCEPT !.adapter = name, !.op = op, !.kind = kind,
                    !.error = error]

ProvInit ==
  /\ toolhouse = [toolhouseConfig |-> NoThConfig, mcpClient |-> FALSE,
                  conversationHistory |-> <<>>, requestCount |-> 0,
                  errorCount |-> 0]
  /\ thCalls = <<>>
  /\ thProbes = <<>>
  /\ openrouter = [openRouterConfig |-> NoOrConfig,
                   conversationHistory |-> <<>>, requestCount |-> 0,
                   errorCount |-> 0]
  /\ orCalls = <<>>
  /\ orProbes = <<>>
  /\ provLast = NoOutcome

\* A sendMessage call may start only while the run is within its bound.
SendsWithinBound ==
  toolhouse.requestCount + Len(thCalls)
    + openrouter.requestCount + Len(orCalls) < MaxSends

\* ToolhouseProvider.initialize up to `await this.testMCPConnection()`
ThInitialize(config) ==
  /\ IF ~ThValidateConfig(config)
     THEN /\ provLast' = OpOutcome("toolhouse", "initialize",
                                   "ProviderInitializationError",
                                   "Failed to initialize provider toolhouse: Failed to initialize provider toolhouse: Invalid Toolhouse configuration")
          /\ UNCHANGED <<toolhouse, thProbes>>
     ELSE /\ Len(thProbes) < MaxProbes
          /\ toolhouse' = [toolhouse EXCEPT !.toolhouseConfig = config,
                                            !.mcpClient = TRUE]
          /\ thProbes' = Append(thProbes, "initialize")
          /\ UNCHANGED provLast
  /\ UNCHANGED <<thCalls, openrouter, orCalls, orProbes>>

\* ToolhouseProvider.isHealthy up to `await this.testMCPConnection()`
ThIsHealthy ==
  /\ IF ~ThInitialized(toolhouse)
     THEN /\ provLast' = OpOutcome("toolhouse", "isHealthy", "false", "")
          /\ UNCHANGED thProbes
     ELSE /\ Len(thProbes) < MaxProbes
          /\ thProbes' = Append(thProbes, "isHealthy")
          /\ UNCHANGED provLast
  /\ UNCHANGED <<toolhouse, thCalls, openrouter, orCalls, orProbes>>

\* testMCPConnection ends: it catches whatever its two requests threw, and
\* its caller resumes (initialize resolves, isHealthy returns true).
ThProbeDone(i, response) ==
  /\ i \in 1..Len(thProbes)
  /\ thProbes' = RemoveAt(thProbes, i)
  /\ provLast' = OpOutcome("toolhouse", thProbes[i],
                           IF thProbes[i] = "isHealthy" THEN "true"
                           ELSE "resolved",
                           IF response = "ok" THEN "" ELSE response)
  /\ UNCHANGED <<toolhouse, thCalls, openrouter, orCalls, orProbes>>

\* ToolhouseProvider.sendMessage up to its first `await`
ThSendMessage(message) ==
  /\ SendsWithinBound
  /\ LET step == ThSendMessageStart(toolhouse, message) IN
       /\ toolhouse' = step.adapter
       /\ thCalls' = IF step.done THEN thCalls ELSE Append(thCalls, step.call)
       /\ provLast' = IF step.done THEN step.outcome ELSE provLast
  /\ UNCHANGED <<thProbes, openrouter, orCalls, orProbes>>

\* searchContentAds answers a suspended sendMessage.
ThSearchDone(i, response) ==
  /\ i \in 1..Len(thCalls)
  /\ thCalls[i].await = "search"
  /\ LET step == ThSearchResume(toolhouse, thCalls[i], response) IN
       /\ toolhouse' = step.adapter
       /\ thCalls' = IF step.done THEN RemoveAt(thCalls, i)
                     ELSE [thCalls EXCEPT ![i] = step.call]
       /\ provLast' = IF step.done THEN step.outcome ELSE provLast
  /\ UNCHANGED <<thProbes, openrouter, orCalls, orProbes>>

\* The agent endpoint answers a suspended sendMessage.
ThAgentDone(i, response) ==
  /\ i \in 1..Len(thCalls)
  /\ thCalls[i].await = "agent"
  /\ LET step == ThAgentResume(toolhouse, thCalls[i], response) IN
       /\ toolhouse' = step.adapter
       /\ thCalls' = RemoveAt(thCalls, i)
       /\ provLast' = step.outcome
  /\ UNCHANGED <<thProbes, openrouter, orCalls, orProbes>>

\* ToolhouseProvider.shutdown
ThShutdown ==
  /\ toolhouse' = ThShutdownState(toolhouse)
  /\ provLast' = OpOutcome("toolhouse", "shutdown", "resolved", "")
  /\ UNCHANGED <<thCalls, thProbes, openrouter, orCalls, orProbes>>

\* ToolhouseProvider.streamMessage is called: the generator object is made,
\* and none of its body runs before the first next().
ThStreamMessage(message) ==
  /\ Len(thCalls) < MaxInFlight
  /\ thCalls' = Append(thCalls, [NoCall EXCEPT !.message = message,
                                               !.await = "next",
                                               !.pc = "begin"])
  /\ UNCHANGED <<toolhouse, thProbes, openrouter, orCalls, orProbes, provLast>>

\* The consumer pulls the next event: the generator runs to its next yield
\* or `await`, or to its end.
ThStreamNext(i) ==
  /\ i \in 1..Len(thCalls)
  /\ thCalls[i].await = "next"
  /\ LET call == StreamResume(toolhouse, thCalls[i]) IN
       IF call.pc = "done"
       THEN /\ thCalls' = RemoveAt(thCalls, i)
            /\ provLast' = StreamOutcome(call, "done")
       ELSE /\ thCalls' = [thCalls EXCEPT ![i] = call]
            /\ UNCHANGED provLast
  /\ UNCHANGED <<toolhouse, thProbes, openrouter, orCalls, orProbes>>

\* searchContentAds answers a suspended generator.
ThStreamSearchDone(i, response) ==
  /\ i \in 1..Len(thCalls)
  /\ thCalls[i].await = "stream_search"
  /\ thCalls' = [thCalls EXCEPT ![i] = StreamSearchResume(@, response)]
  /\ UNCHANGED <<toolhouse, thProbes, openrouter, orCalls, orProbes, provLast>>

\* The agent endpoint answers a suspended generator.
ThStreamAgentDone(i, response) ==
  /\ i \in 1..Len(thCalls)
  /\ thCalls[i].await = "stream_agent"
  /\ thCalls' = [thCalls EXCEPT ![i] = StreamAgentResume(@, response)]
  /\ UNCHANGED <<toolhouse, thProbes, openrouter, orCalls, orProbes, provLast>>

\* The 50 ms timer after a chunk fires.
ThStreamTimer(i) ==
  /\ i \in 1..Len(thCalls)
  /\ thCalls[i].await = "timer"
  /\ thCalls' = [thCalls EXCEPT ![i] = StreamChunkLoop(@, @.words)]
  /\ UNCHANGED <<toolhouse, thProbes, openrouter, orCalls, orProbes, provLast>>

\* The consumer stops pulling (`break` in its for-await): return() ends the
\* generator at the yield it is suspended at.
ThStreamReturn(i) ==
  /\ i \in 1..Len(thCalls)
  /\ thCalls[i].await = "next"
  /\ thCalls' = RemoveAt(thCalls, i)
  /\ provLast' = StreamOutcome(thCalls[i], "returned")
  /\ UNCHANGED <<toolhouse, thProbes, openrouter, orCalls, orProbes>>

\* OpenRouterProvider.initialize up to the fetch of testConnection
OrInitialize(config) ==
  /\ IF ~OrValidateConfig(config)
     THEN /\ provLast' = OpOutcome("openrouter", "initialize",
                                   "ProviderInitializationError",
                                   "Failed to initialize provider openrouter: Failed to initialize provider openrouter: Invalid OpenRouter configuration")
          /\ UNCHANGED <<openrouter, orProbes>>
     ELSE /\ Len(orProbes) < MaxProbes
          /\ openrouter' = [openrouter EXCEPT !.openRouterConfig = config]
          /\ orProbes' = Append(orProbes, "initialize")
          /\ UNCHANGED provLast
  /\ UNCHANGED <<toolhouse, thCalls, thProbes, orCalls>>

\* The completion endpoint answers the request of testConnection, and
\* initialize runs to its end.
OrProbeDone(i, response) ==
  /\ i \in 1..Len(orProbes)
  /\ orProbes' = RemoveAt(orProbes, i)
  /\ provLast' = IF response = "ok"
                 THEN OpOutcome("openrouter", "initialize", "resolved", "")
                 ELSE OpOutcome("openrouter", "initialize",
                                "ProviderInitializationError",
                                "Failed to initialize provider openrouter: Connection test failed")
  /\ UNCHANGED <<toolhouse, thCalls, thProbes, openrouter, orCalls>>

\* A mis-translation of OpenRouterProvider.isHealthy: without its check that
\* a configuration is held.
OrIsHealthyResult_NoConfigCheck(or) == OrValidateConfig(or.openRouterConfig)

\* OpenRouterProvider.isHealthy
OrIsHealthyResult(or) ==
  or.openRouterConfig # NoOrConfig /\ OrValidateConfig(or.openRouterConfig)

OrIsHealthy ==
  /\ provLast' = OpOutcome("openrouter", "isHealthy",
                           IF OrIsHealthyResult(openrouter) THEN "true"
                           ELSE "false", "")
  /\ UNCHANGED <<toolhouse, thCalls, thProbes, openrouter, orCalls, orProbes>>

\* OpenRouterProvider.sendMessage up to the fetch of callOpenRouterAPI
OrSendMessage(message) ==
  /\ SendsWithinBound
  /\ LET step == OrSendMessageStart(openrouter, message) IN
       /\ openrouter' = step.adapter
       /\ orCalls' = IF step.done THEN orCalls ELSE Append(orCalls, step.call)
       /\ provLast' = IF step.done THEN step.outcome ELSE provLast
  /\ UNCHANGED <<toolhouse, thCalls, thProbes, orProbes>>

\* One more turn of a conversation: sendMessage with a message the caller
\* has just built, whose id no earlier message carries.
OrSendTurn(content) ==
  /\ Len(orCalls) < MaxInFlight
  /\ openrouter.requestCount + Len(orCalls) < MaxOrTurns
  /\ LET message == [id |-> <<"msg", openrouter.requestCount + Len(orCalls) + 1>>,
                     content |-> content, role |-> "user",
                     conversationId |-> "uuid_lower"]
         step == OrSendMessageStart(openrouter, message)
     IN /\ openrouter' = step.adapter
        /\ orCalls' = IF step.done THEN orCalls ELSE Append(orCalls, step.call)
        /\ provLast' = IF step.done THEN step.outcome ELSE provLast
  /\ UNCHANGED <<toolhouse, thCalls, thProbes, orProbes>>

\* The completion endpoint answers a suspended sendMessage.
OrCompletionDone(i, response) ==
  /\ i \in 1..Len(orCalls)
  /\ LET step == OrCompletionResume(openrouter, orCalls[i], response) IN
       /\ openrouter' = step.adapter
       /\ orCalls' = RemoveAt(orCalls, i)
       /\ provLast' = step.outcome
  /\ UNCHANGED <<toolhouse, thCalls, thProbes, orProbes>>

\* OpenRouterProvider.shutdown
OrShutdown ==
  /\ openrouter' = OrShutdownState(openrouter)
  /\ provLast' = OpOutcome("openrouter", "shutdown", "resolved", "")
  /\ UNCHANGED <<toolhouse, thCalls, thProbes, orCalls, orProbes>>

\* The state of ProviderRegistry and ProviderFactory, modelled further down.
VARIABLES
  providers,        \* ProviderRegistry.providers, a Map: its entries in insertion order
  regNewest,        \* per name, the plugin the latest register call was given
  regLast,          \* the last registry call and what it returned
  activeProviders,  \* ProviderFactory.activeProviders, by provider type
  plugins,          \* per plugin instance: whether it holds a configuration, and the calls it got
  fcCreates,        \* create calls suspended at `await providerClass.initialize(...)`
  fcShutdowns,      \* shutdownProvider calls suspended at `await provider.shutdown()`
  fcAll,            \* the shutdownAll call: whether it awaits allSettled, and the settled results
  fcStarted,        \* create and shutdown calls made so far
  fcOverlap,        \* whether some factory call started while another was suspended
  fcLast            \* the last factory call that ended and how

factoryVars == <<providers, regNewest, regLast, activeProviders, plugins,
                 fcCreates, fcShutdowns, fcAll, fcStarted, fcOverlap, fcLast>>

\* ------------------------------------------------------ AI provider hook
VARIABLES
  aiConfig,     \* the AIConfig useAIProvider is rendered with
  aiHook,       \* useAIProvider: its React state and sendMessageUseCaseRef
  chatTurns,    \* ChatApplicationService.sendMessage calls suspended at an `await`
  chatCount,    \* sendMessage calls made so far
  chatLast      \* the result of the last sendMessage call that ended (observer)

chatVars == <<aiConfig, aiHook, chatTurns, chatCount, chatLast>>

\* The AI configurations of a run: either provider, with a configuration
\* its validateConfig accepts or rejects.
AiConfigs ==
  [provider : {"toolhouse", "openrouter"},
   toolhouse : {[baseUrl |-> "http://localhost:8001",
                 agentUrl |-> "http://localhost:8001/agent"]},
   openrouter : {GoodOrConfig}]
    \cup {[provider |-> "toolhouse",
           toolhouse |-> [baseUrl |-> "", agentUrl |-> ""],
           openrouter |-> GoodOrConfig],
          [provider |-> "openrouter",
           toolhouse |-> [baseUrl |-> "http://localhost:8001", agentUrl |-> ""],
           openrouter |-> [GoodOrConfig EXCEPT !.apiKey = ""]]}

\* How the request of OpenRouterProvider.testConnection can end.
OrProbeResponses == {"ok", "http_error", "reject"}

\* The answers of the session-creation endpoint during a chat: unreachable,
\* a UUID, or a body without conversation_id.
ChatSessionResponses ==
  {r \in SessionResponses :
     \/ r.kind = "network_error"
     \/ r.kind = "ok" /\ ~r.bodyNull /\ r.conversation_id \in {"uuid_lower", "undefined"}}

\* The texts the user submits.
ChatTexts == {<<"h", "i">>, <<" ">>}

\* The HealthStatus of checkHealth: `seen` is what the ad-search hook held,
\* its error and its search object, when the service read isHealthy.
NoHealth == [conversation |-> FALSE, ai |-> FALSE, ads |-> FALSE,
             overall |-> FALSE,
             seen |-> [error |-> <<>>, searchUseCaseRef |-> FALSE]]

NoChatResult == [outcome |-> "none", text |-> <<>>, source |-> "none",
                 content |-> <<>>, ads |-> <<>>, strategy |-> "none",
                 error |-> <<>>, threw |-> "none", health |-> NoHealth]

\* id numbers the turn; the message built for it carries that number.
NoTurn == [id |-> 0, text |-> <<>>,
           service |-> [conversationId |-> "null", ads |-> <<>>,
                        providerName |-> "none"],
           stage |-> "none", call |-> NoCall, adResult |-> NoResult,
           health |-> NoHealth]

\* text occurs in content as a run of consecutive characters
IsInfix(text, content) ==
  \E i \in 0..(Len(content) - Len(text)) :
    SubSeq(content, i + 1, i + Len(text)) = text

AdTitle(ad) == IF ad = "ad1" THEN "AI Toolkit" ELSE "Cloud Hosting"
AdDescription(ad) == IF ad = "ad1" THEN "Build assistants faster" ELSE "Deploy anywhere"

RECURSIVE EnhancedAdLines(_, _)
EnhancedAdLines(adList, index) ==
  IF index > Len(adList) THEN <<>>
  ELSE <<ToString(index), ". ", AdTitle(adList[index]), ": ",
         AdDescription(adList[index]), "\n">>
         \o EnhancedAdLines(adList, index + 1)

\* ChatApplicationService.buildEnhancedMessage
BuildEnhancedMessage(userMessage, adList) ==
  <<"User message: ">> \o userMessage \o <<"\n\n">>
    \o (IF Len(adList) > 0
        THEN <<"Relevant advertisements that might be helpful:\n">>
               \o EnhancedAdLines(adList, 1) \o <<"\n">>
        ELSE <<>>)
    \o <<"Please respond to the user's message naturally, and if relevant, you can mention the available resources or tools that might help them.">>

\* ChatApplicationService.createFallbackResponse
CreateFallbackResponse(turn, error, threw) ==
  [outcome |-> "resolved", text |-> turn.text, source |-> "fallback",
   content |-> <<"I received your message: \"">> \o turn.text
                 \o <<"\". I apologize, but I'm experiencing some technical difficulties right now. Please try again in a moment.">>,
   ads |-> turn.service.ads, strategy |-> "fallback", error |-> error,
   threw |-> threw, health |-> NoHealth]

SendMessageCatch_Rethrow(turn, error, threw) ==
  [NoChatResult EXCEPT !.outcome = "rejected", !.text = turn.text,
                       !.error = error, !.threw = threw]

\* The catch block of ChatApplicationService.sendMessage
SendMessageCatch(turn, error, threw) ==
  CreateFallbackResponse(turn, error, threw)

\* The result sendMessageWithToolhouse or sendMessageWithManualMCP returns
StrategyResult(turn, outcome) ==
  IF turn.service.providerName = "toolhouse"
  THEN [outcome |-> "resolved", text |-> turn.text, source |-> "toolhouse_mcp",
        content |-> outcome.content, ads |-> <<>>,
        strategy |-> "toolhouse_auto_mcp", error |-> <<>>, threw |-> "none",
        health |-> NoHealth]
  ELSE [outcome |-> "resolved", text |-> turn.text, source |-> "manual_mcp",
        content |-> outcome.content, ads |-> turn.adResult.ads,
        strategy |-> "manual_mcp_enhancement", error |-> <<>>,
        threw |-> "none", health |-> NoHealth]

\* The catch block of SendMessageUseCase.execute: the message of the
\* ProviderRequestError it throws
WrapError(name, outcome) ==
  IF outcome.kind = "ProviderRequestError"
  THEN <<outcome.error>>
  ELSE <<"Provider ", name, " request failed: ", outcome.error>>

\* useAIProvider.sendMessage, its catch and finally blocks, and the catch
\* of the service above them
ProviderFailed(ai, th, or, turn, error) ==
  [ai |-> [ai EXCEPT !.isLoading = FALSE, !.error = error],
   toolhouse |-> th, openrouter |-> or, done |-> TRUE, turn |-> turn,
   result |-> SendMessageCatch(turn, error, "provider")]

\* What follows a step of the adapter's sendMessage: the call is suspended
\* again, or it ended and SendMessageUseCase.execute, useAIProvider.sendMessage
\* and the strategy run to their ends.
AdapterStepped(ai, th, or, turn, step) ==
  LET name == ai.providerName
      newTh == IF name = "toolhouse" THEN step.adapter ELSE th
      newOr == IF name = "toolhouse" THEN or ELSE step.adapter
  IN IF ~step.done
     THEN [ai |-> ai, toolhouse |-> newTh, openrouter |-> newOr,
           done |-> FALSE,
           turn |-> [turn EXCEPT !.stage = "adapter", !.call = step.call],
           result |-> NoChatResult]
     ELSE IF step.outcome.kind = "response"
          THEN [ai |-> [ai EXCEPT !.isLoading = FALSE],
                toolhouse |-> newTh, openrouter |-> newOr, done |-> TRUE,
                turn |-> turn, result |-> StrategyResult(turn, step.outcome)]
          ELSE ProviderFailed(ai, newTh, newOr, turn,
                              WrapError(name, step.outcome))

\* aiProvider.sendMessage(content, {conversationId, ...}) up to its first
\* suspension: useAIProvider.sendMessage, SendMessageUseCase.execute, the
\* adapter's isHealthy and, when that needs no request, its sendMessage.
ProviderStart(ai, th, or, turn, content) ==
  LET message == [id |-> <<"msg", turn.id>>, content |-> content,
                  role |-> "user",
                  conversationId |-> turn.service.conversationId]
      loading == [ai EXCEPT !.isLoading = TRUE, !.error = <<>>]
  IN IF ~ai.sendMessageUseCaseRef
     THEN [ai |-> ai, toolhouse |-> th, openrouter |-> or, done |-> TRUE,
           turn |-> turn,
           result |-> SendMessageCatch(turn, <<"Provider not initialized">>,
                                       "provider")]
     ELSE IF ai.providerName = "toolhouse"
          THEN IF ~ThInitialized(th)
               THEN ProviderFailed(loading, th, or, turn,
                      <<"Provider toolhouse request failed: Provider is not healthy">>)
               ELSE [ai |-> loading, toolhouse |-> th, openrouter |-> or,
                     done |-> FALSE,
                     turn |-> [turn EXCEPT !.stage = "health",
                                           !.call = [NoCall EXCEPT !.message = message]],
                     result |-> NoChatResult]
          ELSE IF ~OrIsHealthyResult(or)
               THEN ProviderFailed(loading, th, or, turn,
                      <<"Provider openrouter request failed: Provider is not healthy">>)
               ELSE AdapterStepped(loading, th, or, turn,
                                   OrSendMessageStart(or, message))

ChatInit ==
  /\ aiConfig \in AiConfigs
  /\ aiHook = [providerName |-> aiConfig.provider, mounted |-> FALSE,
               initializing |-> FALSE, provider |-> FALSE,
               sendMessageUseCaseRef |-> FALSE, isLoading |-> FALSE,
               isInitialized |-> FALSE, error |-> <<>>]
  /\ chatTurns = <<>>
  /\ chatCount = 0
  /\ chatLast = NoChatResult

\* The first render's effect of useAIProvider: initializeProvider up to the
\* connectivity probe of the adapter's initialize.
AiMount ==
  /\ ~aiHook.mounted
  /\ LET name == aiConfig.provider
         valid == IF name = "toolhouse"
                  THEN ThValidateConfig(aiConfig.toolhouse)
                  ELSE OrValidateConfig(aiConfig.openrouter)
     IN IF valid
        THEN /\ aiHook' = [aiHook EXCEPT !.mounted = TRUE, !.isLoading = TRUE,
                                         !.initializing = TRUE]
             /\ toolhouse' = IF name = "toolhouse"
                             THEN [toolhouse EXCEPT
                                     !.toolhouseConfig = aiConfig.toolhouse,
                                     !.mcpClient = TRUE]
                             ELSE toolhouse
             /\ openrouter' = IF name = "toolhouse" THEN openrouter
                              ELSE [openrouter EXCEPT
                                      !.openRouterConfig = aiConfig.openrouter]
        ELSE /\ aiHook' = [aiHook EXCEPT
                             !.mounted = TRUE,
                             !.error = <<"Failed to initialize provider ", name,
                                         ": Failed to initialize provider ", name,
                                         ": Invalid configuration provided">>]
             /\ UNCHANGED <<toolhouse, openrouter>>
  /\ UNCHANGED <<aiConfig, factoryVars, chatTurns, chatCount, chatLast, thCalls, thProbes,
                 orCalls, orProbes, provLast>>

\* The connectivity probe of the adapter's initialize ends, and
\* ProviderFactory.create and initializeProvider run to their ends.
AiInitDone(response) ==
  /\ aiHook.initializing
  /\ IF aiHook.providerName = "toolhouse"
     THEN response \in ProbeResponses
     ELSE response \in OrProbeResponses
  /\ aiHook' =
       IF aiHook.providerName = "toolhouse" \/ response = "ok"
       THEN [aiHook EXCEPT !.initializing = FALSE, !.provider = TRUE,
                           !.sendMessageUseCaseRef = TRUE,
                           !.isInitialized = TRUE, !.isLoading = FALSE]
       ELSE [aiHook EXCEPT
               !.initializing = FALSE, !.isLoading = FALSE,
               !.error = <<"Failed to initialize provider openrouter: Failed to initialize provider openrouter: Connection test failed">>]
  /\ UNCHANGED <<aiConfig, factoryVars, chatTurns, chatCount, chatLast, provVars>>

\* A suspended or ended turn is written back; an ended turn leaves its result.
SettleTurn(base, idx, step) ==
  /\ chatTurns' = IF step.done THEN RemoveAt(base, idx)
                  ELSE [base EXCEPT ![idx] = step.turn]
  /\ chatLast' = IF step.done THEN step.result ELSE chatLast

ApplyProvider(base, idx, step) ==
  /\ aiHook' = step.ai
  /\ toolhouse' = step.toolhouse
  /\ openrouter' = step.openrouter
  /\ SettleTurn(base, idx, step)

\* `conversationManager.conversationId || undefined`, the second argument
\* of useAdSearch in the render the service object was made in
HookConversationId(turn) ==
  IF Falsy(turn.service.conversationId) THEN "undefined"
  ELSE turn.service.conversationId

\* The choice of the strategy without the test of the provider name.
StrategyStart_AlwaysManual(base, idx, turn) ==
  /\ SearchAdsCall(<<turn.text>>, turn.service.conversationId,
                   HookConversationId(turn))
  /\ SettleTurn(base, idx,
       IF searchUseCaseRef
       THEN [done |-> FALSE, turn |-> [turn EXCEPT !.stage = "ad_search"],
             result |-> NoChatResult]
       ELSE [done |-> TRUE, turn |-> turn,
             result |-> SendMessageCatch(turn,
                          <<"Ad search use case not initialized">>,
                          "search")])
  /\ UNCHANGED <<aiHook, toolhouse, openrouter>>

StrategyStart_SkipSearch(base, idx, turn) ==
  /\ ApplyProvider(base, idx,
       ProviderStart(aiHook, toolhouse, openrouter, turn, turn.text))
  /\ UNCHANGED adVars

\* ChatApplicationService.sendMessage from the choice of the strategy to
\* the first suspension: sendMessageWithToolhouse calls the provider,
\* sendMessageWithManualMCP calls adSearch.searchForMessage.
StrategyStart(base, idx, turn) ==
  IF turn.service.providerName = "toolhouse"
  THEN /\ ApplyProvider(base, idx,
            ProviderStart(aiHook, toolhouse, openrouter, turn, turn.text))
       /\ UNCHANGED adVars
  ELSE /\ SearchAdsCall(<<turn.text>>, turn.service.conversationId,
                        HookConversationId(turn))
       /\ SettleTurn(base, idx,
            IF searchUseCaseRef
            THEN [done |-> FALSE, turn |-> [turn EXCEPT !.stage = "ad_search"],
                  result |-> NoChatResult]
            ELSE [done |-> TRUE, turn |-> turn,
                  result |-> SendMessageCatch(turn,
                               <<"Ad search use case not initialized">>,
                               "search")])
       /\ UNCHANGED <<aiHook, toolhouse, openrouter>>

\* ChatApplicationService.sendMessage(text), up to its first suspension
ChatSendMessage(text) ==
  /\ chatCount < MaxTurns
  /\ chatCount' = chatCount + 1
  /\ LET turn == [NoTurn EXCEPT
                    !.id = chatCount + 1,
                    !.text = text,
                    !.service = [conversationId |-> conv.conversationId,
                                 ads |-> ads,
                                 providerName |-> aiHook.providerName],
                    !.stage = "start"]
         base == Append(chatTurns, turn)
         idx == Len(chatTurns) + 1
     IN IF Falsy(conv.conversationId)
        THEN /\ IF ~initUseCaseRef
                THEN /\ SettleTurn(base, idx,
                          [done |-> TRUE, turn |-> turn,
                           result |-> SendMessageCatch(turn,
                                        <<"Conversation use case not initialized">>,
                                        "init")])
                     /\ UNCHANGED convVars
                ELSE /\ conv' = InitializeConversationCall(conv, "explicit")
                     /\ WithinInits(conv, conv')
                     /\ convLast' = "initialize"
                     /\ SettleTurn(base, idx,
                          [done |-> FALSE,
                           turn |-> [turn EXCEPT !.stage = "init"],
                           result |-> NoChatResult])
                     /\ UNCHANGED <<convConfig, initUseCaseRef, convMounted,
                                    everAuto, everReset>>
             /\ UNCHANGED <<adVars, aiHook, toolhouse, openrouter>>
        ELSE /\ StrategyStart(base, idx, turn)
             /\ UNCHANGED convVars
  /\ UNCHANGED <<aiConfig, factoryVars, thCalls, thProbes, orCalls, orProbes, provLast>>

\* The session-creation call of a turn is answered: initializeConversation
\* runs to its end, the hook renders, and the turn goes on to its strategy.
ChatInitDone(t, response) ==
  /\ t \in 1..Len(chatTurns)
  /\ chatTurns[t].stage = "init"
  /\ conv' = AutoInitializeEffect(
               InitializeConversationSettle(conv, Execute(response)),
               convConfig, initUseCaseRef)
  /\ WithinInits(conv, conv')
  /\ convLast' = "settle"
  /\ StrategyStart(chatTurns, t, chatTurns[t])
  /\ UNCHANGED <<convConfig, initUseCaseRef, convMounted, everAuto, everReset,
                 aiConfig, factoryVars, chatCount, thCalls, thProbes, orCalls, orProbes,
                 provLast>>

\* The ad search of a manual-strategy turn is answered: searchAds runs to
\* its end, and the turn goes on to the provider or to the catch block.
ChatAdSearchDone(t, i, response) ==
  /\ t \in 1..Len(chatTurns)
  /\ i \in 1..Len(adPending)
  /\ chatTurns[t].stage = "ad_search"
  /\ adPending[i].queries = <<chatTurns[t].text>>
  /\ adPending[i].conversationId =
       SearchConversationId(chatTurns[t].service.conversationId,
                            HookConversationId(chatTurns[t]))
  /\ SearchAdsSettle(i, response)
  /\ LET turn == chatTurns[t]
         out == ExecuteOutcome(adPending[i].queries, adPending[i].conversationId,
                               response, adClock + 1)
     IN IF out.kind = "ok"
        THEN ApplyProvider(chatTurns, t,
               ProviderStart(aiHook, toolhouse, openrouter,
                             [turn EXCEPT !.adResult = out.result],
                             BuildEnhancedMessage(turn.text, out.result.ads)))
        ELSE /\ SettleTurn(chatTurns, t,
                  [done |-> TRUE, turn |-> turn,
                   result |-> SendMessageCatch(turn, out.message, "search")])
             /\ UNCHANGED <<aiHook, toolhouse, openrouter>>
  /\ UNCHANGED <<convVars, aiConfig, factoryVars, chatCount, thCalls, thProbes, orCalls,
                 orProbes, provLast>>

\* The probe of the agent adapter's isHealthy ends for a turn, and
\* SendMessageUseCase.execute goes on to the adapter's sendMessage.
ChatHealthDone(t, response) ==
  /\ t \in 1..Len(chatTurns)
  /\ chatTurns[t].stage = "health"
  /\ ApplyProvider(chatTurns, t,
       AdapterStepped(aiHook, toolhouse, openrouter, chatTurns[t],
                      ThSendMessageStart(toolhouse, chatTurns[t].call.message)))
  /\ UNCHANGED <<convVars, adVars, aiConfig, factoryVars, chatCount, thCalls, thProbes,
                 orCalls, orProbes, provLast>>

\* searchContentAds answers the adapter's sendMessage of a turn.
ChatThSearchDone(t, response) ==
  /\ t \in 1..Len(chatTurns)
  /\ chatTurns[t].stage = "adapter"
  /\ chatTurns[t].call.await = "search"
  /\ ApplyProvider(chatTurns, t,
       AdapterStepped(aiHook, toolhouse, openrouter, chatTurns[t],
                      ThSearchResume(toolhouse, chatTurns[t].call, response)))
  /\ UNCHANGED <<convVars, adVars, aiConfig, factoryVars, chatCount, thCalls, thProbes,
                 orCalls, orProbes, provLast>>

\* The agent endpoint answers the adapter's sendMessage of a turn.
ChatThAgentDone(t, response) ==
  /\ t \in 1..Len(chatTurns)
  /\ chatTurns[t].stage = "adapter"
  /\ chatTurns[t].call.await = "agent"
  /\ ApplyProvider(chatTurns, t,
       AdapterStepped(aiHook, toolhouse, openrouter, chatTurns[t],
                      ThAgentResume(toolhouse, chatTurns[t].call, response)))
  /\ UNCHANGED <<convVars, adVars, aiConfig, factoryVars, chatCount, thCalls, thProbes,
                 orCalls, orProbes, provLast>>

\* The completion endpoint answers the adapter's sendMessage of a turn.
ChatCompletionDone(t, response) ==
  /\ t \in 1..Len(chatTurns)
  /\ chatTurns[t].stage = "adapter"
  /\ chatTurns[t].call.await = "completion"
  /\ ApplyProvider(chatTurns, t,
       AdapterStepped(aiHook, toolhouse, openrouter, chatTurns[t],
                      OrCompletionResume(openrouter, chatTurns[t].call, response)))
  /\ UNCHANGED <<convVars, adVars, aiConfig, factoryVars, chatCount, thCalls, thProbes,
                 orCalls, orProbes, provLast>>

\* The number of turns waiting for their own session-creation call
TurnsAwaitingInit == Cardinality({t \in 1..Len(chatTurns) : chatTurns[t].stage = "init"})

\* ------------------------------------------------- registry and factory
\* ProviderRegistry and ProviderFactory on their own.  The hook's own path
\* through ProviderFactory.create is part of AiMount and AiInitDone above.

\* The provider types create is called with: two with an adapter in this
\* repository, one for plugins of the host application, one never registered.
FactoryTypes == {"toolhouse", "openrouter", "custom", "gemini"}
FactoryTypeOrder == <<"toolhouse", "openrouter", "custom", "gemini">>
PluginNames == {"toolhouse", "openrouter", "custom"}

\* A plugin object: its name and which of the objects built under that name
Plugins == [name : PluginNames, instance : 1..MaxInstances]
NoPlugin == [name |-> "undefined", instance |-> 0]

\* ----- ProviderRegistry

\* providers.has(name)
RegistryHas(registry, name) ==
  \E i \in 1..Len(registry) : registry[i].name = name

\* providers.get(name)
RegistryGet(registry, name) ==
  IF RegistryHas(registry, name)
  THEN registry[CHOOSE i \in 1..Len(registry) : registry[i].name = name]
  ELSE NoPlugin

RegistrySet_KeepFirst(registry, plugin) ==
  IF RegistryHas(registry, plugin.name) THEN registry
  ELSE Append(registry, plugin)

\* providers.set(provider.name, provider): a known key keeps its place
RegistrySet(registry, plugin) ==
  IF RegistryHas(registry, plugin.name)
  THEN [i \in 1..Len(registry) |->
          IF registry[i].name = plugin.name THEN plugin ELSE registry[i]]
  ELSE Append(registry, plugin)

\* providers.delete(name)
RegistryDelete(registry, name) ==
  SelectSeq(registry, LAMBDA p : p.name # name)

NoRegistryCall == [op |-> "none", name |-> "undefined", plugin |-> NoPlugin,
                   list |-> <<>>, flag |-> FALSE, threw |-> FALSE]

\* ProviderRegistry.register
RegistryRegister(plugin) ==
  /\ providers' = RegistrySet(providers, plugin)
  /\ regNewest' = [regNewest EXCEPT ![plugin.name] = plugin]
  /\ regLast' = [NoRegistryCall EXCEPT
                   !.op = "register", !.name = plugin.name, !.plugin = plugin,
                   !.flag = RegistryHas(providers, plugin.name)]
  /\ UNCHANGED <<activeProviders, plugins, fcCreates, fcShutdowns, fcAll,
                 fcStarted, fcOverlap, fcLast>>

\* ProviderRegistry.unregister
RegistryUnregister(name) ==
  /\ providers' = RegistryDelete(providers, name)
  /\ regNewest' = [regNewest EXCEPT ![name] = NoPlugin]
  /\ regLast' = [NoRegistryCall EXCEPT !.op = "unregister", !.name = name]
  /\ UNCHANGED <<activeProviders, plugins, fcCreates, fcShutdowns, fcAll,
                 fcStarted, fcOverlap, fcLast>>

\* ProviderRegistry.get
RegistryGetCall(name) ==
  /\ regLast' = [NoRegistryCall EXCEPT !.op = "get", !.name = name,
                                       !.plugin = RegistryGet(providers, name)]
  /\ UNCHANGED <<providers, regNewest, activeProviders, plugins, fcCreates,
                 fcShutdowns, fcAll, fcStarted, fcOverlap, fcLast>>

\* ProviderRegistry.list
RegistryList ==
  /\ regLast' = [NoRegistryCall EXCEPT !.op = "list", !.list = providers]
  /\ UNCHANGED <<providers, regNewest, activeProviders, plugins, fcCreates,
                 fcShutdowns, fcAll, fcStarted, fcOverlap, fcLast>>

\* ProviderRegistry.isRegistered
RegistryIsRegistered(name) ==
  /\ regLast' = [NoRegistryCall EXCEPT !.op = "isRegistered", !.name = name,
                                       !.flag = RegistryHas(providers, name)]
  /\ UNCHANGED <<providers, regNewest, activeProviders, plugins, fcCreates,
                 fcShutdowns, fcAll, fcStarted, fcOverlap, fcLast>>

\* ProviderRegistry.getProviderNames
GetProviderNames(registry) ==
  [i \in 1..Len(registry) |-> registry[i].name]

\* ----- ProviderFactory

GoodThConfig == [baseUrl |-> "http://localhost:8001",
                 agentUrl |-> "http://localhost:8001/agent"]

\* The AIConfig values given to create: a sub-configuration is absent
\* (NoThConfig, NoOrConfig, "undefined"), invalid or valid.
GoodAIConfig == [toolhouse |-> GoodThConfig, openrouter |-> GoodOrConfig,
                 custom |-> "valid"]

FactoryConfigs ==
  {GoodAIConfig,
   [GoodAIConfig EXCEPT !.toolhouse = NoThConfig],
   [GoodAIConfig EXCEPT !.toolhouse = [baseUrl |-> "", agentUrl |-> ""]],
   [GoodAIConfig EXCEPT !.openrouter = [GoodOrConfig EXCEPT !.apiKey = ""]],
   [GoodAIConfig EXCEPT !.custom = "undefined"],
   [GoodAIConfig EXCEPT !.custom = "invalid"]}

\* ProviderFactory.extractProviderConfig: whether the sub-configuration is
\* missing, and the message of the Error thrown then
ExtractProviderConfig(providerType, config) ==
  CASE providerType = "toolhouse" ->
         [missing |-> config.toolhouse = NoThConfig,
          error |-> "Toolhouse configuration is missing"]
    [] providerType = "openrouter" ->
         [missing |-> config.openrouter = NoOrConfig,
          error |-> "OpenRouter configuration is missing"]
    [] providerType = "custom" ->
         [missing |-> config.custom = "undefined",
          error |-> "Custom configuration is missing"]
    [] OTHER ->
         [missing |-> TRUE, error |-> "Gemini configuration is missing"]

\* providerClass.validateConfig(providerConfig)
PluginValidateConfig(providerType, config) ==
  CASE providerType = "toolhouse" -> ThValidateConfig(config.toolhouse)
    [] providerType = "openrouter" -> OrValidateConfig(config.openrouter)
    [] OTHER -> config.custom = "valid"

\* names.join(', ')
RECURSIVE JoinNames(_)
JoinNames(names) ==
  IF names = <<>> THEN <<>>
  ELSE IF Len(names) = 1 THEN names
       ELSE <<Head(names), ", ">> \o JoinNames(Tail(names))

\* The message of a ProviderInitializationError
InitializationErrorMessage(provider, message) ==
  <<"Failed to initialize provider ", provider, ": ">> \o message

NoPluginState == [configured |-> FALSE, validateConfigCalls |-> 0,
                  initializeCalls |-> 0, initializeResolved |-> 0,
                  shutdownCalls |-> 0]

\* What create read when it was called: the cache, whether the type had a
\* cached instance, a registered plugin, a sub-configuration, a valid one.
NoCreateCall == [before |-> [t \in FactoryTypes |-> NoPlugin],
                 cached |-> FALSE, registered |-> FALSE, missing |-> FALSE,
                 valid |-> FALSE]

NoFactoryOutcome == [op |-> "none", type |-> "none", kind |-> "none",
                     plugin |-> NoPlugin, error |-> <<>>,
                     call |-> NoCreateCall]

FactoryOutcome(op, type, kind, plugin, error, call) ==
  [op |-> op, type |-> type, kind |-> kind, plugin |-> plugin,
   error |-> error, call |-> call]

FactoryInit ==
  /\ providers = <<[name |-> "toolhouse", instance |-> 1],
                   [name |-> "openrouter", instance |-> 1]>>
  /\ regNewest = [n \in PluginNames |->
                    IF n = "custom" THEN NoPlugin
                    ELSE [name |-> n, instance |-> 1]]
  /\ regLast = NoRegistryCall
  /\ activeProviders = [t \in FactoryTypes |-> NoPlugin]
  /\ plugins = [p \in Plugins |-> NoPluginState]
  /\ fcCreates = <<>>
  /\ fcShutdowns = <<>>
  /\ fcAll = [pending |-> FALSE, settled |-> <<>>]
  /\ fcStarted = [create |-> 0, shutdown |-> 0]
  /\ fcOverlap = FALSE
  /\ fcLast = NoFactoryOutcome

\* Some factory call is suspended.
FactoryBusy == fcCreates # <<>> \/ fcShutdowns # <<>>

CachedInstance_None(cache, providerType) == NoPlugin

\* this.activeProviders.get(providerType)
CachedInstance(cache, providerType) == cache[providerType]

CacheAfterInitialize_Always(cache, create, rejected) ==
  [cache EXCEPT ![create.type] = create.plugin]

\* create after `await providerClass.initialize(providerConfig)`: the set
\* of line 44 runs only when initialize resolved
CacheAfterInitialize(cache, create, rejected) ==
  IF rejected THEN cache
  ELSE [cache EXCEPT ![create.type] = create.plugin]

\* ProviderFactory.create(providerType, config) up to its end or to
\* `await providerClass.initialize(providerConfig)`; initialize itself runs
\* up to its connectivity probe, having stored the configuration
FactoryCreate(providerType, config) ==
  LET existingProvider == CachedInstance(activeProviders, providerType)
      providerClass == RegistryGet(providers, providerType)
      extracted == ExtractProviderConfig(providerType, config)
      valid == PluginValidateConfig(providerType, config)
      call == [before |-> activeProviders,
               cached |-> existingProvider # NoPlugin,
               registered |-> providerClass # NoPlugin,
               missing |-> extracted.missing,
               valid |-> ~extracted.missing /\ valid]
  IN
  /\ fcStarted.create < MaxCreates
  /\ Len(fcCreates) < MaxInFlight
  /\ fcStarted' = [fcStarted EXCEPT !.create = @ + 1]
  /\ fcOverlap' = (fcOverlap \/ FactoryBusy)
  /\ CASE existingProvider # NoPlugin ->
            /\ fcLast' = FactoryOutcome("create", providerType, "resolved",
                                        existingProvider, <<>>, call)
            /\ UNCHANGED <<plugins, fcCreates>>
       [] existingProvider = NoPlugin /\ providerClass = NoPlugin ->
            /\ fcLast' = FactoryOutcome("create", providerType,
                 "ProviderInitializationError", NoPlugin,
                 InitializationErrorMessage(providerType,
                   <<"Provider ", providerType,
                     " is not registered. Available providers: ">>
                     \o JoinNames(GetProviderNames(providers))),
                 call)
            /\ UNCHANGED <<plugins, fcCreates>>
       [] existingProvider = NoPlugin /\ providerClass # NoPlugin
            /\ extracted.missing ->
            /\ fcLast' = FactoryOutcome("create", providerType,
                 "ProviderInitializationError", NoPlugin,
                 InitializationErrorMessage(providerType, <<extracted.error>>),
                 call)
            /\ UNCHANGED <<plugins, fcCreates>>
       [] existingProvider = NoPlugin /\ providerClass # NoPlugin
            /\ ~extracted.missing /\ ~valid ->
            /\ plugins' = [plugins EXCEPT
                             ![providerClass].validateConfigCalls = @ + 1]
            /\ fcLast' = FactoryOutcome("create", providerType,
                 "ProviderInitializationError", NoPlugin,
                 InitializationErrorMessage(providerType,
                   InitializationErrorMessage(providerType,
                     <<"Invalid configuration provided">>)),
                 call)
            /\ UNCHANGED fcCreates
       [] OTHER ->
            /\ plugins' = [plugins EXCEPT
                             ![providerClass].validateConfigCalls = @ + 1,
                             ![providerClass].initializeCalls = @ + 1,
                             ![providerClass].configured = TRUE]
            /\ fcCreates' = Append(fcCreates,
                              [type |-> providerType, plugin |-> providerClass,
                               call |-> call])
            /\ UNCHANGED fcLast
  /\ UNCHANGED <<providers, regNewest, regLast, activeProviders, fcShutdowns,
                 fcAll>>

\* How the connectivity probe of a plugin's initialize can end.
InitializeResponses == {"ok", "failed"}

\* Whether initialize rejects: ToolhouseProvider.testMCPConnection swallows
\* the failure of its probe, OpenRouterProvider.testConnection does not.
InitializeRejects(providerType, response) ==
  providerType # "toolhouse" /\ response = "failed"

\* The probe of a suspended create ends: initialize settles and create runs
\* to its end.
FactoryInitializeDone(i, response) ==
  /\ i \in 1..Len(fcCreates)
  /\ LET create == fcCreates[i]
         rejected == InitializeRejects(create.type, response)
     IN /\ fcCreates' = RemoveAt(fcCreates, i)
        /\ activeProviders' = CacheAfterInitialize(activeProviders, create,
                                                   rejected)
        /\ plugins' = IF rejected THEN plugins
                      ELSE [plugins EXCEPT
                              ![create.plugin].initializeResolved = @ + 1]
        /\ fcLast' =
             IF rejected
             THEN FactoryOutcome("create", create.type,
                    "ProviderInitializationError", NoPlugin,
                    InitializationErrorMessage(create.type,
                      InitializationErrorMessage(create.type,
                        <<"Connection test failed">>)),
                    create.call)
             ELSE FactoryOutcome("create", create.type, "resolved",
                                 create.plugin, <<>>, create.call)
  /\ UNCHANGED <<providers, regNewest, regLast, fcShutdowns, fcAll, fcStarted,
                 fcOverlap>>

\* provider.shutdown() up to its first suspension: both adapters drop their
\* configuration and history at once
PluginShutdown(state) ==
  [state EXCEPT !.configured = FALSE, !.shutdownCalls = @ + 1]

\* ProviderFactory.shutdownProvider(providerType) up to
\* `await provider.shutdown()`, or to its end when nothing is cached
FactoryShutdownProvider(providerType) ==
  /\ fcStarted.shutdown < MaxShutdowns
  /\ fcStarted' = [fcStarted EXCEPT !.shutdown = @ + 1]
  /\ fcOverlap' = (fcOverlap \/ FactoryBusy)
  /\ LET provider == activeProviders[providerType] IN
       IF provider # NoPlugin
       THEN /\ plugins' = [plugins EXCEPT ![provider] = PluginShutdown(@)]
            /\ fcShutdowns' = Append(fcShutdowns,
                                [type |-> providerType, plugin |-> provider,
                                 all |-> FALSE])
            /\ UNCHANGED fcLast
       ELSE /\ fcLast' = FactoryOutcome("shutdownProvider", providerType,
                                        "resolved", NoPlugin, <<>>,
                                        NoCreateCall)
            /\ UNCHANGED <<plugins, fcShutdowns>>
  /\ UNCHANGED <<providers, regNewest, regLast, activeProviders, fcCreates,
                 fcAll>>

\* How provider.shutdown() can settle; the two adapters of this repository
\* always resolve, a plugin of the host application may reject.
ShutdownResponses == {"fulfilled", "rejected"}

SettledOutcome_PromiseAll(results) ==
  IF \E k \in 1..Len(results) : results[k] = "rejected" THEN "rejected"
  ELSE "resolved"

\* `await Promise.allSettled(shutdownPromises)`
SettledOutcome(results) == "resolved"

\* provider.shutdown() of a suspended shutdownProvider settles, and
\* shutdownProvider runs to its end; when it was the last one shutdownAll
\* waited for, shutdownAll runs to its end too.
FactoryShutdownDone(i, response) ==
  /\ i \in 1..Len(fcShutdowns)
  /\ response = "rejected" => fcShutdowns[i].type = "custom"
  /\ LET shutdown == fcShutdowns[i]
         rest == RemoveAt(fcShutdowns, i)
         deleted == IF response = "rejected" THEN activeProviders
                    ELSE [activeProviders EXCEPT ![shutdown.type] = NoPlugin]
         results == Append(fcAll.settled, response)
         lastOfAll == \A j \in 1..Len(rest) : ~rest[j].all
     IN /\ fcShutdowns' = rest
        /\ IF ~shutdown.all
           THEN /\ activeProviders' = deleted
                /\ fcLast' = FactoryOutcome("shutdownProvider", shutdown.type,
                               IF response = "rejected" THEN "Error"
                               ELSE "resolved",
                               NoPlugin,
                               IF response = "rejected"
                               THEN <<"shutdown failed">> ELSE <<>>,
                               NoCreateCall)
                /\ UNCHANGED fcAll
           ELSE IF ~lastOfAll
                THEN /\ activeProviders' = deleted
                     /\ fcAll' = [fcAll EXCEPT !.settled = results]
                     /\ UNCHANGED fcLast
                ELSE /\ fcAll' = [pending |-> FALSE, settled |-> results]
                     /\ activeProviders' =
                          IF SettledOutcome(results) = "resolved"
                          THEN [t \in FactoryTypes |-> NoPlugin]
                          ELSE deleted
                     /\ fcLast' = FactoryOutcome("shutdownAll", "none",
                                    SettledOutcome(results), NoPlugin, <<>>,
                                    NoCreateCall)
  /\ UNCHANGED <<providers, regNewest, regLast, plugins, fcCreates, fcStarted,
                 fcOverlap>>

\* ProviderFactory.shutdownAll up to `await Promise.allSettled(...)`: the
\* map over the entries has called shutdownProvider, and with it
\* provider.shutdown(), for every cached type
FactoryShutdownAll ==
  /\ ~fcAll.pending
  /\ fcStarted.shutdown < MaxShutdowns
  /\ fcStarted' = [fcStarted EXCEPT !.shutdown = @ + 1]
  /\ fcOverlap' = (fcOverlap \/ FactoryBusy)
  /\ LET cached == SelectSeq(FactoryTypeOrder,
                             LAMBDA t : activeProviders[t] # NoPlugin)
     IN IF cached = <<>>
        THEN /\ fcLast' = FactoryOutcome("shutdownAll", "none", "resolved",
                                         NoPlugin, <<>>, NoCreateCall)
             /\ fcAll' = [pending |-> FALSE, settled |-> <<>>]
             /\ UNCHANGED <<plugins, fcShutdowns>>
        ELSE /\ plugins' = [p \in Plugins |->
                              IF \E k \in 1..Len(cached) :
                                   activeProviders[cached[k]] = p
                              THEN PluginShutdown(plugins[p])
                              ELSE plugins[p]]
             /\ fcShutdowns' = fcShutdowns \o
                  [k \in 1..Len(cached) |->
                     [type |-> cached[k],
                      plugin |-> activeProviders[cached[k]], all |-> TRUE]]
             /\ fcAll' = [pending |-> TRUE, settled |-> <<>>]
             /\ UNCHANGED fcLast
  /\ UNCHANGED <<providers, regNewest, regLast, activeProviders, fcCreates>>

\* ------------------------------------------------------- specifications
vars == <<adVars, convVars, provVars, chatVars, factoryVars>>

\* The Ad Search Component on its own.
\* The chat service at rest, for the runs of one component.
ChatIdle ==
  /\ ChatInit /\ aiConfig.provider = "toolhouse"
  /\ ThValidateConfig(aiConfig.toolhouse)
  /\ FactoryInit

InitAds == AdInit /\ ConvInit /\ convConfig.autoInitialize /\ ProvInit /\ ChatIdle

NextAds ==
  \/ \E c \in AdConfigs : AdConfigEffect(c) /\ UNCHANGED <<convVars, provVars, chatVars, factoryVars>>
  \/ \E q \in QueryLists, o \in SearchConvIds :
       SearchAdsCall(q, o, "undefined") /\ UNCHANGED <<convVars, provVars, chatVars, factoryVars>>
  \/ \E i \in 1..Len(adPending), r \in AdResponses :
       SearchAdsSettle(i, r) /\ UNCHANGED <<convVars, provVars, chatVars, factoryVars>>
  \/ ClearAds /\ UNCHANGED <<convVars, provVars, chatVars, factoryVars>>
  \/ ClearHistory /\ UNCHANGED <<convVars, provVars, chatVars, factoryVars>>

SpecAds == InitAds /\ [][NextAds]_vars

\* The Conversation Session Manager on its own.
InitConv == ConvInit /\ AdInit /\ adConfig = "cfgA" /\ ProvInit /\ ChatIdle

NextConv ==
  \/ ConvMount /\ UNCHANGED <<adVars, provVars, chatVars, factoryVars>>
  \/ \E cfg \in [autoInitialize : BOOLEAN] :
       ConvConfigChange(cfg) /\ UNCHANGED <<adVars, provVars, chatVars, factoryVars>>
  \/ InitializeConversation /\ UNCHANGED <<adVars, provVars, chatVars, factoryVars>>
  \/ \E r \in SessionResponses :
       InitializeConversationDone(r) /\ UNCHANGED <<adVars, provVars, chatVars, factoryVars>>
  \/ ResetConversationCall /\ UNCHANGED <<adVars, provVars, chatVars, factoryVars>>
  \/ UpdateConversationHealthCall /\ UNCHANGED <<adVars, provVars, chatVars, factoryVars>>

SpecConv == InitConv /\ [][NextConv]_vars

\* The two provider adapters on their own.
InitAdapters ==
  /\ ProvInit /\ AdInit /\ adConfig = "cfgA"
  /\ ConvInit /\ convConfig.autoInitialize /\ ChatIdle

NextAdapters ==
  \/ \E c \in ThConfigs : ThInitialize(c) /\ UNCHANGED <<adVars, convVars, chatVars, factoryVars>>
  \/ ThIsHealthy /\ UNCHANGED <<adVars, convVars, chatVars, factoryVars>>
  \/ \E i \in 1..Len(thProbes), r \in ProbeResponses :
       ThProbeDone(i, r) /\ UNCHANGED <<adVars, convVars, chatVars, factoryVars>>
  \/ \E m \in CommonMessages : ThSendMessage(m) /\ UNCHANGED <<adVars, convVars, chatVars, factoryVars>>
  \/ \E i \in 1..Len(thCalls), r \in McpResponses :
       ThSearchDone(i, r) /\ UNCHANGED <<adVars, convVars, chatVars, factoryVars>>
  \/ \E i \in 1..Len(thCalls), r \in AgentResponses :
       ThAgentDone(i, r) /\ UNCHANGED <<adVars, convVars, chatVars, factoryVars>>
  \/ ThShutdown /\ UNCHANGED <<adVars, convVars, chatVars, factoryVars>>
  \/ \E c \in OrConfigs : OrInitialize(c) /\ UNCHANGED <<adVars, convVars, chatVars, factoryVars>>
  \/ \E i \in 1..Len(orProbes), r \in {"ok", "http_error", "reject"} :
       OrProbeDone(i, r) /\ UNCHANGED <<adVars, convVars, chatVars, factoryVars>>
  \/ OrIsHealthy /\ UNCHANGED <<adVars, convVars, chatVars, factoryVars>>
  \/ \E m \in CommonMessages : OrSendMessage(m) /\ UNCHANGED <<adVars, convVars, chatVars, factoryVars>>
  \/ \E i \in 1..Len(orCalls), r \in CompletionResponses :
       OrCompletionDone(i, r) /\ UNCHANGED <<adVars, convVars, chatVars, factoryVars>>
  \/ OrShutdown /\ UNCHANGED <<adVars, convVars, chatVars, factoryVars>>

SpecAdapters == InitAdapters /\ [][NextAdapters]_vars

\* The tool-augmented agent adapter on its own.
NextToolhouse ==
  \/ \E c \in ThConfigs : ThInitialize(c) /\ UNCHANGED <<adVars, convVars, chatVars, factoryVars>>
  \/ ThIsHealthy /\ UNCHANGED <<adVars, convVars, chatVars, factoryVars>>
  \/ \E i \in 1..Len(thProbes), r \in ProbeResponses :
       ThProbeDone(i, r) /\ UNCHANGED <<adVars, convVars, chatVars, factoryVars>>
  \/ \E m \in AIMessages : ThSendMessage(m) /\ UNCHANGED <<adVars, convVars, chatVars, factoryVars>>
  \/ \E i \in 1..Len(thCalls), r \in McpResponses :
       ThSearchDone(i, r) /\ UNCHANGED <<adVars, convVars, chatVars, factoryVars>>
  \/ \E i \in 1..Len(thCalls), r \in AgentResponses :
       ThAgentDone(i, r) /\ UNCHANGED <<adVars, convVars, chatVars, factoryVars>>
  \/ ThShutdown /\ UNCHANGED <<adVars, convVars, chatVars, factoryVars>>

SpecToolhouse == InitAdapters /\ [][NextToolhouse]_vars

\* The streaming call path of the agent adapter.
StreamMessages ==
  {m \in AIMessages :
     /\ m.content \in {<<" ">>, <<"h", "i">>}
     /\ m.conversationId \in {"uuid_lower", "not_a_uuid", "undefined"}}

NextStream ==
  \/ \E c \in ThConfigs : ThInitialize(c) /\ UNCHANGED <<adVars, convVars, chatVars, factoryVars>>
  \/ \E i \in 1..Len(thProbes), r \in ProbeResponses :
       ThProbeDone(i, r) /\ UNCHANGED <<adVars, convVars, chatVars, factoryVars>>
  \/ ThShutdown /\ UNCHANGED <<adVars, convVars, chatVars, factoryVars>>
  \/ \E m \in StreamMessages :
       /\ Len(thCalls) < MaxStreams
       /\ ThStreamMessage(m)
       /\ UNCHANGED <<adVars, convVars, chatVars, factoryVars>>
  \/ \E i \in 1..Len(thCalls) :
       ThStreamNext(i) /\ UNCHANGED <<adVars, convVars, chatVars, factoryVars>>
  \/ \E i \in 1..Len(thCalls), r \in McpResponses :
       ThStreamSearchDone(i, r) /\ UNCHANGED <<adVars, convVars, chatVars, factoryVars>>
  \/ \E i \in 1..Len(thCalls), r \in AgentResponses :
       ThStreamAgentDone(i, r) /\ UNCHANGED <<adVars, convVars, chatVars, factoryVars>>
  \/ \E i \in 1..Len(thCalls) :
       ThStreamTimer(i) /\ UNCHANGED <<adVars, convVars, chatVars, factoryVars>>
  \/ \E i \in 1..Len(thCalls) :
       ThStreamReturn(i) /\ UNCHANGED <<adVars, convVars, chatVars, factoryVars>>

SpecStream == InitAdapters /\ [][NextStream]_vars

\* One long conversation with the direct-completion adapter.
TurnResponses == {[kind |-> "ok", text |-> <<"completion">>],
                  [kind |-> "http_error", text |-> <<>>]}

\* The adapter after initialize(GoodOrConfig) has resolved
InitOpenRouter ==
  /\ ConvInit /\ convConfig.autoInitialize /\ AdInit /\ adConfig = "cfgA"
  /\ ChatIdle
  /\ toolhouse = [toolhouseConfig |-> NoThConfig, mcpClient |-> FALSE,
                  conversationHistory |-> <<>>, requestCount |-> 0,
                  errorCount |-> 0]
  /\ thCalls = <<>>
  /\ thProbes = <<>>
  /\ openrouter = [openRouterConfig |-> GoodOrConfig,
                   conversationHistory |-> <<>>, requestCount |-> 0,
                   errorCount |-> 0]
  /\ orCalls = <<>>
  /\ orProbes = <<>>
  /\ provLast = OpOutcome("openrouter", "initialize", "resolved", "")

NextOpenRouter ==
  \/ /\ OrSendTurn(<<"h", "i">>)
     /\ openrouter'.errorCount <= MaxOrErrors
     /\ UNCHANGED <<adVars, convVars, chatVars, factoryVars>>
  \/ \E i \in 1..Len(orCalls), r \in TurnResponses :
       /\ OrCompletionDone(i, r)
       /\ openrouter'.errorCount <= MaxOrErrors
       /\ UNCHANGED <<adVars, convVars, chatVars, factoryVars>>

SpecOpenRouter == InitOpenRouter /\ [][NextOpenRouter]_vars


\* ProviderFactory on its own, the host application registering its plugin.
NextFactory ==
  \/ /\ RegistryRegister([name |-> "custom", instance |-> 1])
     /\ UNCHANGED <<adVars, convVars, provVars, chatVars>>
  \/ \E t \in FactoryTypes, c \in FactoryConfigs :
       FactoryCreate(t, c) /\ UNCHANGED <<adVars, convVars, provVars, chatVars>>
  \/ \E i \in 1..Len(fcCreates), r \in InitializeResponses :
       FactoryInitializeDone(i, r)
         /\ UNCHANGED <<adVars, convVars, provVars, chatVars>>
  \/ \E t \in FactoryTypes :
       FactoryShutdownProvider(t)
         /\ UNCHANGED <<adVars, convVars, provVars, chatVars>>
  \/ \E i \in 1..Len(fcShutdowns), r \in ShutdownResponses :
       FactoryShutdownDone(i, r)
         /\ UNCHANGED <<adVars, convVars, provVars, chatVars>>
  \/ FactoryShutdownAll /\ UNCHANGED <<adVars, convVars, provVars, chatVars>>

SpecFactory == InitAdapters /\ [][NextFactory]_vars

\* ProviderRegistry on its own.
NextRegistry ==
  \/ \E p \in Plugins :
       RegistryRegister(p) /\ UNCHANGED <<adVars, convVars, provVars, chatVars>>
  \/ \E n \in FactoryTypes :
       RegistryUnregister(n) /\ UNCHANGED <<adVars, convVars, provVars, chatVars>>
  \/ \E n \in FactoryTypes :
       RegistryGetCall(n) /\ UNCHANGED <<adVars, convVars, provVars, chatVars>>
  \/ RegistryList /\ UNCHANGED <<adVars, convVars, provVars, chatVars>>
  \/ \E n \in FactoryTypes :
       RegistryIsRegistered(n)
         /\ UNCHANGED <<adVars, convVars, provVars, chatVars>>

SpecRegistry == InitAdapters /\ [][NextRegistry]_vars

AdIsHealthy_ErrorOnly(error, ref) == error = <<>>

\* useAdSearch: isHealthy of the hook's return value
AdIsHealthy(error, ref) == error = <<>> /\ ref

\* The HealthStatus checkHealth returns, from the two awaited results and
\* the ad-search hook the service holds.
HealthStatus(conversationHealthy, aiHealthy, seen) ==
  LET adsHealthy == AdIsHealthy(seen.error, seen.searchUseCaseRef) IN
    [conversation |-> conversationHealthy, ai |-> aiHealthy,
     ads |-> adsHealthy,
     overall |-> conversationHealthy /\ aiHealthy /\ adsHealthy,
     seen |-> seen]

\* ChatApplicationService.checkHealth up to the connectivity probe of the
\* Toolhouse adapter: updateConversationHealth runs to its end, and
\* useAIProvider.checkHealth answers at once without a use case, with an
\* uninitialized Toolhouse adapter, and with the direct-completion adapter.
ChatCheckHealth ==
  /\ Len(chatTurns) < MaxInFlight
  /\ conv' = UpdateConversationHealth(conv, initUseCaseRef)
  /\ convLast' = "health"
  /\ LET seen == [error |-> adError, searchUseCaseRef |-> searchUseCaseRef]
         conversationHealthy == conv'.isHealthy
         suspends == /\ aiHook.sendMessageUseCaseRef
                     /\ aiHook.providerName = "toolhouse"
                     /\ ThInitialized(toolhouse)
         aiHealthy == /\ aiHook.sendMessageUseCaseRef
                      /\ aiHook.providerName = "openrouter"
                      /\ OrIsHealthyResult(openrouter)
         status == HealthStatus(conversationHealthy, aiHealthy, seen)
     IN IF suspends
        THEN /\ chatTurns' = Append(chatTurns,
                                    [NoTurn EXCEPT !.stage = "check_health",
                                                   !.health = status])
             /\ UNCHANGED chatLast
        ELSE /\ chatLast' = [NoChatResult EXCEPT !.outcome = "health",
                                                 !.health = status]
             /\ UNCHANGED chatTurns
  /\ UNCHANGED <<adVars, provVars, factoryVars, aiConfig, aiHook, chatCount,
                 convConfig, initUseCaseRef, convMounted, everAuto, everReset>>

\* The probe of ToolhouseProvider.isHealthy ends, however its requests
\* ended, and checkHealth returns.
ChatCheckHealthDone(t, response) ==
  /\ t \in 1..Len(chatTurns)
  /\ chatTurns[t].stage = "check_health"
  /\ response \in ProbeResponses
  /\ chatTurns' = RemoveAt(chatTurns, t)
  /\ chatLast' = [NoChatResult EXCEPT
                    !.outcome = "health",
                    !.health = HealthStatus(chatTurns[t].health.conversation,
                                            TRUE, chatTurns[t].health.seen)]
  /\ UNCHANGED <<adVars, convVars, provVars, factoryVars, aiConfig, aiHook,
                 chatCount>>

\* The whole chat: the three hooks of ChatContainer, the adapter of the
\* configured provider, and the turns of ChatApplicationService.
Init ==
  /\ ConvInit /\ AdInit /\ adConfig = "cfgA" /\ ProvInit /\ ChatInit
  /\ FactoryInit

Next ==
  \/ ConvMount /\ UNCHANGED <<adVars, provVars, chatVars, factoryVars>>
  \/ \E r \in ChatSessionResponses :
       /\ conv.pending > TurnsAwaitingInit
       /\ InitializeConversationDone(r)
       /\ UNCHANGED <<adVars, provVars, chatVars, factoryVars>>
  \/ \E c \in AdConfigs : AdConfigEffect(c) /\ UNCHANGED <<convVars, provVars, chatVars, factoryVars>>
  \/ AiMount /\ UNCHANGED <<adVars, convVars>>
  \/ \E r \in ProbeResponses \cup OrProbeResponses :
       AiInitDone(r) /\ UNCHANGED <<adVars, convVars>>
  \/ \E text \in ChatTexts : ChatSendMessage(text)
  \/ \E t \in 1..Len(chatTurns), r \in ChatSessionResponses : ChatInitDone(t, r)
  \/ \E t \in 1..Len(chatTurns), i \in 1..Len(adPending), r \in AdResponses :
       ChatAdSearchDone(t, i, r)
  \/ \E t \in 1..Len(chatTurns), r \in ProbeResponses : ChatHealthDone(t, r)
  \/ \E t \in 1..Len(chatTurns), r \in McpResponses : ChatThSearchDone(t, r)
  \/ \E t \in 1..Len(chatTurns), r \in AgentResponses : ChatThAgentDone(t, r)
  \/ \E t \in 1..Len(chatTurns), r \in CompletionResponses :
       ChatCompletionDone(t, r)

Spec == Init /\ [][Next]_vars

\* The health check of the chat: the three hooks mount and settle, the ad
\* search is used and reconfigured, and checkHealth is called at any time.
NextHealth ==
  \/ ConvMount /\ UNCHANGED <<adVars, provVars, chatVars, factoryVars>>
  \/ \E r \in ChatSessionResponses :
       InitializeConversationDone(r)
         /\ UNCHANGED <<adVars, provVars, chatVars, factoryVars>>
  \/ ResetConversationCall /\ UNCHANGED <<adVars, provVars, chatVars, factoryVars>>
  \/ \E c \in AdConfigs : AdConfigEffect(c) /\ UNCHANGED <<convVars, provVars, chatVars, factoryVars>>
  \/ \E q \in QueryLists, o \in SearchConvIds :
       /\ adClock + Len(adPending) < MaxHealthSearches
       /\ SearchAdsCall(q, o, "undefined")
       /\ UNCHANGED <<convVars, provVars, chatVars, factoryVars>>
  \/ \E i \in 1..Len(adPending), r \in AdResponses :
       SearchAdsSettle(i, r) /\ UNCHANGED <<convVars, provVars, chatVars, factoryVars>>
  \/ AiMount /\ UNCHANGED <<adVars, convVars>>
  \/ \E r \in ProbeResponses \cup OrProbeResponses :
       AiInitDone(r) /\ UNCHANGED <<adVars, convVars>>
  \/ ChatCheckHealth
  \/ \E t \in 1..Len(chatTurns), r \in ProbeResponses : ChatCheckHealthDone(t, r)

SpecHealth == Init /\ [][NextHealth]_vars

\* --------------------------------------------------------------- claims
\* C5: the search history holds the most recent successful results, at most
\* ten of them, in the order they completed: all of them while there are
\* ten or fewer, exactly the last ten after more than ten.
C5_BoundedHistory ==
  /\ Len(searchHistory) = (IF Len(adLog) > 10 THEN 10 ELSE Len(adLog))
  /\ \A i \in 1..Len(searchHistory) :
        searchHistory[i] = adLog[Len(adLog) - Len(searchHistory) + i]

C5_Witness == Len(adLog) > 10 /\ Len(searchHistory) = 10

\* C6: right after a successful searchAds the current-ads slot is exactly
\* the array the remote call returned, whatever the slot held before.
C6_AdsAreRemoteArray ==
  (adLast.outcome = "ok" /\ adLast.hadResults) => ads = adLast.returned

C6_Witness ==
  /\ adLast.outcome = "ok"
  /\ ads = <<"ad1">>
  /\ Len(searchHistory) >= 2
  /\ searchHistory[Len(searchHistory) - 1].ads = <<"ad2", "ad1">>

\* C7: a searchAds call whose remote query fails ends with an AdSearchError
\* that carries the cause, and that step changes neither the current-ads
\* slot nor the search history.
C7_FailedSearchKeepsAds ==
  [][(Len(adPending') < Len(adPending) /\ adLast'.outcome # "ok")
       => /\ adLast'.outcome = "AdSearchError"
          /\ adLast'.cause \in {"network_error", "http_error"}
          /\ ads' = ads
          /\ searchHistory' = searchHistory]_vars

C7_Witness ==
  /\ adLast.outcome = "AdSearchError"
  /\ ads # <<>>
  /\ Len(searchHistory) > 0

\* C2: every result initializeConversation has produced is either a
\* canonical UUID with backendInitialized, or a non-null string identifier
\* without it.
C2_InitResultShape ==
  conv.conversationResult # NoConvResult =>
    LET r == conv.conversationResult IN
    IF r.backendInitialized
    THEN IsValidConversationId(r.conversationId)
    ELSE r.conversationId \in IdKeys

\* C8: resetConversation leaves the session uninitialized, and a second
\* call right after the first changes nothing.
C8_ResetIdempotent ==
  [][convLast' = "reset" =>
       /\ conv'.conversationId = "null"
       /\ ~conv'.isHealthy
       /\ conv'.conversationResult = NoConvResult
       /\ conv'.error = "null"
       /\ convLast = "reset" => ConvState(conv') = ConvState(conv)]_vars

C8_Witness ==
  /\ convLast = "reset"
  /\ conv.conversationId = "null"
  /\ conv.requests > 0

\* C9: while autoInitialize has been false in every render and
\* initializeConversation() has not been called explicitly, no request has
\* been sent to the session-initialization endpoint.
C9_NoRequestWithoutAutoInit ==
  (~everAuto /\ conv.explicitCalls = 0) => conv.requests = 0

C9_Witness ==
  /\ ~everAuto
  /\ convMounted
  /\ convLast = "reset"
  /\ conv.requests = 0

\* C10: in a run without resetConversation the auto-initialize effect calls
\* initializeConversation at most once.
C10_AutoInitOnce == ~everReset => conv.autoCalls <= 1

\* C3: a message whose content is empty or only whitespace never gets a
\* sendMessage call of either adapter as far as a network request, and the
\* call ends with the validation error of validateMessage.
C3_BlankContentRejected ==
  /\ \A i \in 1..Len(thCalls) : Len(Trim(thCalls[i].message.content)) > 0
  /\ \A i \in 1..Len(orCalls) : Len(Trim(orCalls[i].message.content)) > 0
  /\ (provLast.op = "sendMessage" /\ Len(Trim(provLast.message.content)) = 0)
       => /\ provLast.kind = "Error"
          /\ provLast.error = "Message content cannot be empty"

C3_Witness ==
  /\ ThInitialized(toolhouse)
  /\ openrouter.openRouterConfig # NoOrConfig
  /\ provLast.op = "sendMessage"
  /\ provLast.message.content = <<" ", "\t", "\n">>
  /\ provLast.kind = "Error"

\* C4: the agent adapter never sends an ad search for a message whose
\* metadata.conversationId is absent or not a canonical UUID, and a
\* sendMessage call with such a message (otherwise valid) ends with a
\* ProviderRequestError.
C4_InvalidIdRequestError ==
  /\ \A i \in 1..Len(thCalls) :
       IsValidConversationId(thCalls[i].message.conversationId)
  /\ (/\ provLast.adapter = "toolhouse"
      /\ provLast.op = "sendMessage"
      /\ ValidateMessage(provLast.message) = "ok"
      /\ ~IsValidConversationId(provLast.message.conversationId))
       => provLast.kind = "ProviderRequestError"

\* C1: every ChatApplicationService.sendMessage call that has ended has
\* resolved with a result, and when the session initializer, the ad search
\* or the provider threw, that result has source 'fallback' and a content
\* that contains the input text.
C1_SendMessageNeverRejects ==
  /\ chatLast.outcome \in {"none", "resolved"}
  /\ chatLast.threw \in {"init", "search", "provider"}
       => /\ chatLast.source = "fallback"
          /\ IsInfix(chatLast.text, chatLast.content)

C1_Witness ==
  /\ chatLast.outcome = "resolved"
  /\ chatLast.threw = "search"
  /\ chatLast.error = <<"Failed to search ads: ", "network_error">>
  /\ chatLast.text = <<"h", "i">>
  /\ chatLast.source = "fallback"


\* C11: every messages array posted to the completion endpoint starts with
\* the system message and carries at most the 20 most recent conversation
\* messages after it, the last of them being the message of the call.
C11_SystemThenRecentHistory ==
  \A i \in 1..Len(orCalls) :
    LET messages == orCalls[i].messages IN
      /\ Len(messages) >= 2
      /\ messages[1] = [role |-> "system", content |-> SystemPrompt]
      /\ Len(messages) - 1 <= HistoryLimit
      /\ messages[Len(messages)] = ApiMessage(orCalls[i].message)

\* C12: whenever the ad search returned a non-empty ad list, the prompt
\* posted to the agent endpoint contains the text of the message and, for
\* the k-th ad, the line "k. title - description" and, when the ad has a
\* url, the line "   Link: url".
C12_PromptCarriesAds ==
  \A i \in 1..Len(thCalls) :
    LET call == thCalls[i]
        relevantAds == RelevantAds(call.mcpResponse)
    IN (call.await = "agent" /\ Len(relevantAds) > 0) =>
         /\ IsInfix(call.message.content, call.prompt)
         /\ \A k \in 1..Len(relevantAds) :
              /\ IsInfix(<<ToString(k), ". ", relevantAds[k].title, " - ",
                           relevantAds[k].description, "\n">>, call.prompt)
              /\ relevantAds[k].url # "" =>
                   IsInfix(<<"   Link: ", relevantAds[k].url, "\n">>,
                           call.prompt)

C12_Witness ==
  \E i \in 1..Len(thCalls) :
    /\ thCalls[i].await = "agent"
    /\ Len(RelevantAds(thCalls[i].mcpResponse)) = 2
    /\ thCalls[i].message.content = <<"h", "i">>

\* C13: a sendMessage of the tool-augmented adapter that has reached its
\* ad-retrieval request does not fail afterwards: whether the ad search or
\* the agent endpoint fails, the call ends with a response, whose content
\* is the agent's text or the template text built from the ads retrieved.
C13_StepFailureGivesTemplate ==
  [][\A i \in 1..Len(thCalls) :
       (/\ thCalls' = RemoveAt(thCalls, i)
        /\ toolhouse'.requestCount = toolhouse.requestCount + 1) =>
         /\ provLast'.kind = "response"
         /\ provLast'.content \in
              {r.text : r \in AgentResponses}
                \cup {TemplateResponse(thCalls[i].message,
                                       thCalls[i].mcpResponse)}]_vars

\* C14: a manual-strategy turn whose ad search fails with an AdSearchError
\* is not aborted: its result is never the fallback result built for that
\* error.
C14_AdSearchErrorNotFallback ==
  ~(/\ chatLast.source = "fallback"
    /\ chatLast.threw = "search"
    /\ chatLast.error # <<>>
    /\ Head(chatLast.error) = "Failed to search ads: ")

\* C15: the provider name alone picks the strategy of a turn.  Under the
\* name "toolhouse" the turn never searches ads itself, hands the adapter
\* the text as submitted, and its result has an empty ads list; under any
\* other name the adapter is called only after the ad search, with the
\* text buildEnhancedMessage makes of the submitted text and the ads found.
C15_StrategyByProviderName ==
  /\ \A t \in 1..Len(chatTurns) :
       LET turn == chatTurns[t] IN
         /\ turn.service.providerName = aiConfig.provider
         /\ IF turn.service.providerName = "toolhouse"
            THEN /\ turn.stage # "ad_search"
                 /\ turn.adResult = NoResult
                 /\ turn.stage \in {"health", "adapter"} =>
                      turn.call.message.content = turn.text
            ELSE turn.stage \in {"health", "adapter"} =>
                   /\ turn.adResult # NoResult
                   /\ turn.call.message.content =
                        BuildEnhancedMessage(turn.text, turn.adResult.ads)
  /\ aiConfig.provider = "toolhouse" =>
       adPending = <<>> /\ lastSearchResult = NoResult
  /\ chatLast.source = "toolhouse_mcp" =>
       aiConfig.provider = "toolhouse" /\ chatLast.ads = <<>>
  /\ chatLast.source = "manual_mcp" =>
       aiConfig.provider # "toolhouse" /\ lastSearchResult # NoResult

C15_Witness ==
  /\ chatLast.source = "toolhouse_mcp"
  /\ chatLast.content = <<"agent reply">>
  /\ chatLast.ads = <<>>
  /\ \E t \in 1..Len(chatTurns) : chatTurns[t].stage = "adapter"

\* C16: every result sendMessage returns has one of the three sources with
\* the strategy that goes with it, and a fallback result carries the message
\* of the error caught and the ads the Ad Search Component holds when the
\* result is built.
C16_ResultShape ==
  [][chatLast' # chatLast =>
       /\ <<chatLast'.source, chatLast'.strategy>> \in
            {<<"toolhouse_mcp", "toolhouse_auto_mcp">>,
             <<"manual_mcp", "manual_mcp_enhancement">>,
             <<"fallback", "fallback">>}
       /\ chatLast'.source = "fallback" =>
            /\ chatLast'.error # <<>>
            /\ chatLast'.ads = ads']_vars

\* A step of the factory keeps to the cache: create hands out the cached
\* instance without calling validateConfig or initialize; it calls them,
\* validateConfig first, only for a type with no cached instance; and a
\* create that resolves after initialize has cached what it returns.
CreateFollowsCache ==
  /\ \A p \in Plugins :
       /\ plugins'[p].validateConfigCalls > plugins[p].validateConfigCalls =>
            activeProviders[p.name] = NoPlugin
       /\ plugins'[p].initializeCalls > plugins[p].initializeCalls =>
            /\ activeProviders[p.name] = NoPlugin
            /\ plugins'[p].validateConfigCalls =
                 plugins[p].validateConfigCalls + 1
  /\ (/\ fcStarted'.create = fcStarted.create + 1
      /\ fcCreates' = fcCreates
      /\ fcLast'.call.cached) =>
       /\ fcLast'.kind = "resolved"
       /\ fcLast'.plugin = activeProviders[fcLast'.type]
       /\ plugins' = plugins
  /\ (Len(fcCreates') < Len(fcCreates) /\ fcLast'.kind = "resolved") =>
       activeProviders'[fcLast'.type] = fcLast'.plugin

\* C17 as stated: create keeps to the cache, so over sequential create calls
\* with no shutdown initialize is invoked at most once per type.
C17_InitializeAtMostOnce ==
  [][/\ CreateFollowsCache
     /\ \A p \in Plugins :
          (~fcOverlap' /\ plugins'[p].shutdownCalls = 0) =>
            plugins'[p].initializeCalls <= 1]_vars

\* C17 amended: create keeps to the cache, so over sequential create calls
\* with no shutdown initialize is never invoked again for a type once it
\* has resolved for that type; it is invoked again after it rejected.
C17_NoInitializeAfterSuccess ==
  [][/\ CreateFollowsCache
     /\ \A p \in Plugins :
          (/\ ~fcOverlap' /\ plugins'[p].shutdownCalls = 0
           /\ plugins[p].initializeResolved >= 1) =>
            plugins'[p].initializeCalls = plugins[p].initializeCalls]_vars

C17_Witness ==
  /\ ~fcOverlap
  /\ fcStarted = [create |-> 3, shutdown |-> 0]
  /\ fcLast.op = "create" /\ fcLast.kind = "resolved" /\ fcLast.call.cached
  /\ fcLast.plugin = [name |-> "openrouter", instance |-> 1]
  /\ plugins[fcLast.plugin].initializeCalls = 2
  /\ plugins[fcLast.plugin].initializeResolved = 1

\* C18: a create call for a type with no cached instance fails with a
\* ProviderInitializationError when the type is unregistered, its
\* sub-configuration is missing, validateConfig returns false or initialize
\* rejects; a create call fails in no other way, and a failing call leaves the
\* active-provider cache as the step found it and, when no other factory
\* call overlapped, as it was when create was called.
C18_FailedCreateKeepsCache ==
  [][(\/ fcStarted'.create = fcStarted.create + 1 /\ fcCreates' = fcCreates
      \/ Len(fcCreates') < Len(fcCreates)) =>
       LET outcome == fcLast' IN
         /\ outcome.op = "create"
         /\ (/\ ~outcome.call.cached
             /\ \/ ~outcome.call.registered
                \/ outcome.call.missing
                \/ ~outcome.call.valid) =>
              outcome.kind = "ProviderInitializationError"
         /\ outcome.kind # "resolved" =>
              /\ outcome.kind = "ProviderInitializationError"
              /\ Head(outcome.error) = "Failed to initialize provider "
              /\ activeProviders' = activeProviders
              /\ ~fcOverlap' => activeProviders' = outcome.call.before]_vars

C18_Witness ==
  /\ ~fcOverlap
  /\ fcLast.op = "create" /\ fcLast.type = "openrouter"
  /\ fcLast.kind = "ProviderInitializationError"
  /\ plugins[[name |-> "openrouter", instance |-> 1]].initializeCalls = 1
  /\ activeProviders["toolhouse"] = [name |-> "toolhouse", instance |-> 1]
  /\ activeProviders["openrouter"] = NoPlugin

\* C19: shutdownAll invokes shutdown on every cached adapter, and when it
\* ends, whether or not one of those shutdowns threw, it has resolved and
\* the active-provider cache is empty.
C19_ShutdownAllIsolatesFailures ==
  [][/\ (fcAll'.pending /\ ~fcAll.pending) =>
          \A t \in FactoryTypes :
            activeProviders[t] # NoPlugin =>
              plugins'[activeProviders[t]].shutdownCalls =
                plugins[activeProviders[t]].shutdownCalls + 1
     /\ (\/ fcAll.pending /\ ~fcAll'.pending
         \/ /\ fcStarted'.shutdown = fcStarted.shutdown + 1
            /\ fcShutdowns' = fcShutdowns
            /\ fcLast'.op = "shutdownAll") =>
          /\ fcLast'.op = "shutdownAll"
          /\ fcLast'.kind = "resolved"
          /\ \A t \in FactoryTypes : activeProviders'[t] = NoPlugin]_vars

C19_Witness ==
  /\ fcLast.op = "shutdownAll" /\ fcLast.kind = "resolved"
  /\ Len(fcAll.settled) = 2
  /\ \E k \in 1..2 : fcAll.settled[k] = "rejected"
  /\ \E k \in 1..2 : fcAll.settled[k] = "fulfilled"
  /\ plugins[[name |-> "toolhouse", instance |-> 1]].shutdownCalls = 1
  /\ plugins[[name |-> "custom", instance |-> 1]].shutdownCalls = 1
  /\ \A t \in FactoryTypes : activeProviders[t] = NoPlugin

\* C20: register stores the plugin under its name without failing, a plugin
\* registered again under the same name replacing the earlier one, so that
\* get(name) returns the plugin the latest register call for that name was
\* given; get, list and isRegistered leave the registry map as it was.
C20_RegistryLookups ==
  [][LET call == regLast' IN
       /\ ~call.threw
       /\ call.op = "register" =>
            /\ RegistryGet(providers', call.name) = call.plugin
            /\ \A n \in PluginNames \ {call.name} :
                 RegistryGet(providers', n) = RegistryGet(providers, n)
       /\ call.op = "get" =>
            /\ call.plugin = IF call.name \in PluginNames
                             THEN regNewest'[call.name] ELSE NoPlugin
            /\ providers' = providers
       /\ call.op = "list" =>
            /\ providers' = providers
            /\ \A n \in PluginNames :
                 regNewest'[n] # NoPlugin <=>
                   \E k \in 1..Len(call.list) : call.list[k] = regNewest'[n]
       /\ call.op = "isRegistered" =>
            /\ providers' = providers
            /\ call.flag = (call.name \in PluginNames
                              /\ regNewest'[call.name] # NoPlugin)]_vars

C20_Witness ==
  /\ regLast.op = "get" /\ regLast.name = "toolhouse"
  /\ regLast.plugin = [name |-> "toolhouse", instance |-> 2]
  /\ Len(providers) = 3
  /\ providers[1] = [name |-> "toolhouse", instance |-> 2]

\* C21: every sendMessage call of an adapter that has failed (adapter not
\* initialized, message validation, network, upstream error status,
\* malformed payload) has rejected with a ProviderRequestError, and a
\* failed call carries no response content.
C21_FailureIsRequestError ==
  (provLast.op = "sendMessage" /\ provLast.kind # "response")
    => /\ provLast.kind = "ProviderRequestError"
       /\ provLast.content = <<>>
       /\ provLast.mcpAds = <<>>

\* C22: an initialize call of an adapter that has ended has either resolved
\* or rejected with a ProviderInitializationError, and it has resolved only
\* when the configuration passed validation and the connectivity probe
\* succeeded (provLast.error names the probe request that failed).
C22_InitializeNeedsProbe ==
  provLast.op = "initialize"
    => /\ provLast.kind \in {"resolved", "ProviderInitializationError"}
       /\ provLast.kind = "resolved" => provLast.error = ""

\* C23: an isHealthy call of the agent adapter that has returned true ran
\* an ad-retrieval probe whose two requests (the creation of the test
\* session and the test search) both succeeded.
C23_HealthyOnlyIfProbeSucceeded ==
  (provLast.adapter = "toolhouse" /\ provLast.op = "isHealthy"
     /\ provLast.kind = "true")
    => provLast.error = ""

\* C24: an isHealthy call of either adapter ends by resolving to true or to
\* false, never by throwing, and a call made while the adapter holds no
\* configuration (never initialized, or shut down) resolves to false.
C24_IsHealthyNeverThrows ==
  [][/\ provLast'.op = "isHealthy" => provLast'.kind \in {"true", "false"}
     /\ (ThIsHealthy /\ ~ThInitialized(toolhouse))
          => provLast' = OpOutcome("toolhouse", "isHealthy", "false", "")
     /\ (OrIsHealthy /\ openrouter.openRouterConfig = NoOrConfig)
          => provLast' = OpOutcome("openrouter", "isHealthy", "false", "")]_vars

\* isHealthy of an adapter that answered a message and was then shut down
C24_Witness ==
  /\ provLast = OpOutcome("openrouter", "isHealthy", "false", "")
  /\ openrouter.openRouterConfig = NoOrConfig
  /\ openrouter.requestCount > 0
  /\ openrouter.errorCount = 0

\* C25: shutdown of an adapter always resolves, and from every reachable
\* adapter state a second shutdown leaves the state the first one left: no
\* configuration, no client, an empty conversation history.
C25_ShutdownIdempotent ==
  LET thOnce == ThShutdownState(toolhouse)
      orOnce == OrShutdownState(openrouter)
  IN /\ ThShutdownState(thOnce) = thOnce
     /\ thOnce.toolhouseConfig = NoThConfig
     /\ ~thOnce.mcpClient
     /\ thOnce.conversationHistory = <<>>
     /\ OrShutdownState(orOnce) = orOnce
     /\ orOnce.openRouterConfig = NoOrConfig
     /\ orOnce.conversationHistory = <<>>
     /\ provLast.op = "shutdown" => provLast.kind = "resolved"

\* shutdown of an adapter that holds a configuration and two messages
C25_Witness ==
  /\ provLast = OpOutcome("openrouter", "shutdown", "resolved", "")
  /\ openrouter.requestCount > 0
  /\ openrouter.errorCount = 0
  /\ openrouter.conversationHistory = <<>>
  /\ openrouter.openRouterConfig = NoOrConfig

\* The ordering rules of a stream: an event of type metadata, chunk or end
\* comes after a start event that is the first event, and an end or error
\* event is the last event.
StreamWellFormed(events) ==
  \A k \in 1..Len(events) :
    /\ events[k].type \in {"start", "metadata", "chunk", "end", "error"}
    /\ events[k].type \in {"metadata", "chunk", "end"}
         => (k > 1 /\ events[1].type = "start")
    /\ events[k].type \in {"end", "error"} => k = Len(events)

\* The contents a stream can be cut into chunks from
StreamContents ==
  {TemplateResponse(m, r) :
     m \in {x \in StreamMessages : ValidateMessage(x) = "ok"},
     r \in {x \in McpResponses : x.kind = "object"}}
    \cup {r.text : r \in AgentResponses}

\* The number of words of the longest of them
LongestStream ==
  CHOOSE n \in 1..200 :
    /\ \A c \in StreamContents : Len(SplitOnSpace(Flatten(c))) <= n
    /\ \E c \in StreamContents : Len(SplitOnSpace(Flatten(c))) = n

\* C26: the events a streamMessage generator has yielded so far are well
\* formed and no more than start, three metadata events, one chunk per word
\* of the content and end; a generator that ran to its end yielded exactly
\* one terminal event (end or error), as its last event.
C26_StreamWellFormed ==
  /\ \A i \in 1..Len(thCalls) :
       /\ StreamWellFormed(thCalls[i].events)
       /\ Len(thCalls[i].events) <= LongestStream + 5
  /\ provLast.op = "streamMessage"
       => /\ StreamWellFormed(provLast.events)
          /\ Len(provLast.events) <= LongestStream + 5
          /\ provLast.kind = "done"
               => /\ provLast.events # <<>>
                  /\ provLast.events[Len(provLast.events)].type
                       \in {"end", "error"}

\* a stream that found two ads and ran through its chunks to the end event
C26_Witness ==
  /\ provLast.op = "streamMessage"
  /\ provLast.kind = "done"
  /\ Len(provLast.events) > 6
  /\ provLast.events[1].type = "start"
  /\ provLast.events[3].adsFound = 2
  /\ provLast.events[5].type = "chunk"
  /\ provLast.events[Len(provLast.events)].type = "end"

C28_MissingIdIsFailure ==
  /\ conv.conversationId # "undefined"
  /\ conv.conversationResult.conversationId # "undefined"
  /\ conv.conversationResult.backendInitialized =>
       conv.conversationResult.conversationId \in {"uuid_lower", "uuid_upper",
                                                   "not_a_uuid", "empty"}

\* C29: while the session has not been reset, at most one session-creation
\* request has been issued, by the auto-initialize effect and the turns of
\* sendMessage together.
C29_OneSessionRequest ==
  ~everReset => conv.requests <= 1

\* C30: whatever a turn of sendMessage hands on carries a session
\* identifier: the conversationId of the ad search it awaits and the
\* conversationId of the message it gave the adapter are never null,
\* undefined or empty.
C30_TurnUsesSessionId ==
  /\ \A i \in 1..Len(adPending) : ~Falsy(adPending[i].conversationId)
  /\ \A t \in 1..Len(chatTurns) :
       chatTurns[t].stage \in {"health", "adapter"} =>
         ~Falsy(chatTurns[t].call.message.conversationId)

\* The position of a stage in a turn of sendMessage.
StageRank(stage) ==
  CASE stage = "init" -> 1
    [] stage = "ad_search" -> 2
    [] stage = "health" -> 3
    [] stage = "adapter" -> 4
    [] OTHER -> 0

\* C31: the stages of one turn run in sequence.  A turn never moves back
\* to an earlier stage; while it awaits the session or its ad search it has
\* neither an ad result nor an adapter call; every pending ad search belongs
\* to a turn that is at the ad-search stage; and a manual-strategy turn that
\* has reached the adapter holds the result of its ad search.
C31_StagesInSequence ==
  [][/\ \A t \in 1..Len(chatTurns') :
          LET turn == chatTurns'[t] IN
            /\ turn.stage \in {"init", "ad_search"} =>
                 turn.call = NoCall /\ turn.adResult = NoResult
            /\ (turn.service.providerName # "toolhouse"
                  /\ turn.stage \in {"health", "adapter"}) =>
                 turn.adResult # NoResult
     /\ Len(adPending') =
          Cardinality({t \in 1..Len(chatTurns') : chatTurns'[t].stage = "ad_search"})
     /\ \A a \in 1..Len(chatTurns), b \in 1..Len(chatTurns') :
          chatTurns[a].id = chatTurns'[b].id =>
            StageRank(chatTurns'[b].stage) >= StageRank(chatTurns[a].stage)]_vars

C31_Witness ==
  \E t \in 1..Len(chatTurns) :
    /\ chatTurns[t].stage = "adapter"
    /\ chatTurns[t].service.providerName = "openrouter"
    /\ chatTurns[t].service.conversationId = "null"
    /\ chatTurns[t].adResult # NoResult
    /\ conv.requests > 0

\* C32: create calls for one type that overlap invoke initialize once: no
\* two create calls are suspended at the initialize of the same type.
C32_OverlappingCreatesInitializeOnce ==
  \A i, j \in 1..Len(fcCreates) :
    i # j => fcCreates[i].type # fcCreates[j].type

\* C33: in the step in which a create call resolves, the instance it
\* resolves with holds a configuration.
C33_CreateReturnsInitialized ==
  [][(/\ \/ fcStarted'.create > fcStarted.create /\ fcCreates' = fcCreates
         \/ Len(fcCreates') < Len(fcCreates)
      /\ fcLast'.op = "create"
      /\ fcLast'.kind = "resolved") =>
       plugins'[fcLast'.plugin].configured]_vars

\* A shutdownProvider call made by the caller, not by shutdownAll, ends in
\* this step: at once because nothing was cached, or after provider.shutdown().
ShutdownProviderEnds ==
  \/ /\ fcStarted'.shutdown > fcStarted.shutdown
     /\ fcShutdowns' = fcShutdowns
     /\ fcLast'.op = "shutdownProvider"
  \/ \E i \in 1..Len(fcShutdowns) :
       /\ fcShutdowns' = RemoveAt(fcShutdowns, i)
       /\ ~fcShutdowns[i].all
       /\ fcLast'.type = fcShutdowns[i].type

\* C34: in the step in which a shutdownProvider call ends, resolved or
\* rejected, its type has no instance in the cache.
C34_ShutdownProviderEmptiesCache ==
  [][ShutdownProviderEnds => activeProviders'[fcLast'.type] = NoPlugin]_vars

\* C35: in the step in which the initialize of the direct-completion
\* adapter rejects because its connectivity probe failed, the adapter is
\* left without a configuration and its isHealthy would return false.
C35_FailedInitializeLeavesUninitialized ==
  [][(/\ \E i \in 1..Len(orProbes), r \in OrProbeResponses : OrProbeDone(i, r)
      /\ provLast'.kind = "ProviderInitializationError") =>
       /\ openrouter'.openRouterConfig = NoOrConfig
       /\ ~OrIsHealthyResult(openrouter')]_vars

\* C36: a sendMessage call of either adapter that fails before its first
\* request (validation, no configuration, a missing or malformed
\* conversationId) leaves the adapter's conversation history as it was.
C36_FailedSendKeepsHistory ==
  [][/\ ((\E m \in AIMessages : ThSendMessage(m)) /\ thCalls' = thCalls) =>
          toolhouse'.conversationHistory = toolhouse.conversationHistory
     /\ ((\E m \in AIMessages : OrSendMessage(m)) /\ orCalls' = orCalls) =>
          openrouter'.conversationHistory = openrouter.conversationHistory]_vars

\* C37: the conversation history of the direct-completion adapter never
\* holds more than 21 entries.
C37_HistoryAtMost21 ==
  Len(openrouter.conversationHistory) <= HistoryLimit + 1

\* C38: a searchAds call of the mounted hook never fails with 'Ad search
\* use case not initialized', and once searchAds has been called the hook
\* is healthy whenever it holds no error.
C38_MountedAdSearchConstructed ==
  /\ adLast.cause # "not_initialized"
  /\ (adLast # NoLast /\ adError = <<>>) => AdIsHealthy(adError, searchUseCaseRef)

\* C39: when an initialization that was in flight at a resetConversation
\* ends right after it, with no initializeConversation invoked since (the
\* auto-initialize effect is off), the session is still uninitialized:
\* conversationId null and not healthy.
C39_ResetOutlivesPendingInit ==
  [][(/\ convLast = "reset"
      /\ ~convConfig.autoInitialize
      /\ \E r \in SessionResponses : InitializeConversationDone(r)) =>
       /\ conv'.conversationId = "null"
       /\ ~conv'.isHealthy]_vars

====
